---- MODULE Spec2Model ----
(***************************************************************************)
(* ForemanOrchestrator (modules/orchestrator-foreman): the issue-driven    *)
(* worker lifecycle engine.  One asyncio event loop runs the coroutines;   *)
(* every action below is the code between two suspension points of one     *)
(* coroutine, or one synchronous callback.  A call made on a collaborator  *)
(* (an emit, a query, an update, add_message) is recorded by the step that *)
(* makes it; the step that follows is the collaborator's answer.           *)
(***************************************************************************)
EXTENDS Integers, Sequences, FiniteSets, TLC

\* ------------------------------------------------------------------ bounds
MaxIssues == 2
MaxTasks == 2
MaxErrors == 1
MaxQuery == 2
MaxIterations == 2
MaxToolCalls == 2
MaxPools == 2
MaxRules == 2
MaxBlocked == 4
MaxPath == 2
MaxDepth == 2
MaxHistory == 11

Ids == 1..MaxIssues
NoId == 0          \* issue.get("id") is None
NoTask == 0        \* self._worker_tasks.get(issue_id) is None
None == "none"

VARIABLES
    config,            \* self.worker_pools, self.routing_config
    worker_tasks,      \* self._worker_tasks: issue id -> task handle
    spawned_issues,    \* self._spawned_issues
    spawn_errors,      \* self._spawn_errors: [issue, kind] per message
    tasks,             \* the asyncio tasks running _run_spawn_and_handle_result
    upd,               \* the pending _update_issue_status_blocked tasks
    coordinator,       \* self._coordinator
    hist,              \* history: the issues a spawn error was recorded for, and the
                       \* status updates the foreman has sent to the issue store
    recovery_done,     \* self._recovery_done
    orphaned_issues,   \* self._orphaned_issues, by issue id
    rec,               \* the calls of _maybe_recover_orphaned_issues, per caller
    rec_query_calls,   \* history: how many of those calls queried the issue store
    ex,                \* the execute() coroutine: position and locals
    orphan_digests,    \* history: how many progress reports had an orphan section
    progress,            \* the call of _check_worker_progress in progress, if any
    last               \* the call or step that produced this state

vars == <<config, worker_tasks, spawned_issues, spawn_errors, tasks, upd, hist,
          coordinator, recovery_done, orphaned_issues, rec, rec_query_calls, ex,
          orphan_digests, progress, last>>

\* The fields the Worker Task Tracker owns, and the Recovery Scanner's.
trackerVars == <<config, worker_tasks, spawned_issues, spawn_errors, tasks, upd, coordinator, hist>>

recVars == <<recovery_done, orphaned_issues, rec, rec_query_calls>>

\* What every step outside execute() leaves alone.
othVars == <<recovery_done, orphaned_issues, rec, rec_query_calls, ex, orphan_digests, progress>>

\* ------------------------------------------------------------ configuration
\* worker_bundle "" is a pool without the worker_bundle key.
DefaultConfig ==
    [ worker_pools |-> << [name |-> "coding-pool", worker_bundle |-> "git+https://example.com/worker"],
                          [name |-> "bare-pool", worker_bundle |-> ""] >>,
      rules |-> << [if_metadata_type |-> {"coding"}, then_pool |-> "coding-pool"],
                   [if_metadata_type |-> {"testing"}, then_pool |-> "bare-pool"],
                   [if_metadata_type |-> {"docs"}, then_pool |-> "ghost-pool"] >>,
      default_pool |-> "coding-pool",
      max_iterations |-> MaxIterations ]

NoPool == [name |-> None, worker_bundle |-> ""]

Min(S) == CHOOSE x \in S : \A y \in S : x <= y

SeqsUpTo(S, n) == UNION {[1..k -> S] : k \in 0..n}

\* _get_pool_by_name: the first pool with that name, or None.
GetPoolByName(cfg, name) ==
    LET hits == {k \in 1..Len(cfg.worker_pools) : cfg.worker_pools[k].name = name}
    IN  IF hits = {} THEN NoPool ELSE cfg.worker_pools[Min(hits)]

\* issue.get("issue_type") or issue.get("metadata", {}).get("type", "general")
IssueType(issue) ==
    IF issue.issue_type # None THEN issue.issue_type
    ELSE IF issue.meta_type # None THEN issue.meta_type
    ELSE "general"

\* Mutant of the routing: the last matching rule decides.
RouteIssueLastRule(cfg, issue) ==
    LET ty == IssueType(issue)
        hits == {k \in 1..Len(cfg.rules) : ty \in cfg.rules[k].if_metadata_type}
    IN  IF hits # {} THEN GetPoolByName(cfg, cfg.rules[CHOOSE k \in hits : \A j \in hits : j <= k].then_pool)
        ELSE IF cfg.default_pool # "" THEN GetPoolByName(cfg, cfg.default_pool)
        ELSE IF Len(cfg.worker_pools) > 0 THEN cfg.worker_pools[1]
        ELSE NoPool

\* _route_issue: first matching rule, then default_pool, then the first pool.
RouteIssue(cfg, issue) ==
    LET ty == IssueType(issue)
        hits == {k \in 1..Len(cfg.rules) : ty \in cfg.rules[k].if_metadata_type}
    IN  IF hits # {} THEN GetPoolByName(cfg, cfg.rules[Min(hits)].then_pool)
        ELSE IF cfg.default_pool # "" THEN GetPoolByName(cfg, cfg.default_pool)
        ELSE IF Len(cfg.worker_pools) > 0 THEN cfg.worker_pools[1]
        ELSE NoPool

\* The issues a create call can return: with or without an id, of a type that
\* routes to a pool with a bundle, to a pool without one, or to no pool.
IssueTypes == {"coding", "testing", "docs"}
Issues == [id : Ids \cup {NoId}, issue_type : {None}, meta_type : IssueTypes]

\* An issue whose metadata key is present with the value None, and no
\* issue_type: issue.get("metadata", {}) is None and the .get on it at line
\* 963 raises AttributeError.
NullMetadata == "null"

MalformedIssues == [id : Ids, issue_type : {None}, meta_type : {NullMetadata}]

RouteRaises(issue) == issue.issue_type = None /\ issue.meta_type = NullMetadata

\* ------------------------------------------------------------------- tasks
\* A task handle holds the issue it works on and its state: "running" (the
\* unit has not reached its except handler and at is the await it is
\* suspended at), "failed_diag" (the handler has recorded the error and
\* awaits the execution_failed diagnostic), or done with an outcome
\* ("completed", "failed", "cancelled") and its done callback scheduled with
\* call_soon.  session is whether create_session has returned, cleanups how
\* often worker_session.cleanup() has been called, pend what the finally
\* clause will re-raise after cleanup.  Once the callback has run nothing
\* refers to the task: the handle is free.  The number of handles is a bound
\* of the model; the code creates tasks without limit.
TaskIds == 1..MaxTasks

FreeTask == [issue |-> NoId, st |-> "free", at |-> "none", session |-> FALSE, cleanups |-> 0, pend |-> "none"]

\* The task asyncio.create_task returns at line 159: the coroutine has not
\* run yet.
NewTask(i) == [issue |-> i, st |-> "running", at |-> "start", session |-> FALSE, cleanups |-> 0, pend |-> "none"]

Outcomes == {"completed", "failed", "cancelled"}

\* task.done()
Done(t) == tasks[t].st \in Outcomes

\* The unfinished tasks working on issue i.
LiveTasks(i) == {t \in TaskIds : tasks[t].issue = i /\ tasks[t].st \in {"running", "failed_diag"}}

FreeHandles == {t \in TaskIds : tasks[t].st = "free"}

\* ---------------------------------------------------------------- recovery
\* The coroutines that call _maybe_recover_orphaned_issues.  A call is idle,
\* suspended on the open query or on the in_progress query, returned (ret is
\* the value returned, queried whether it passed the guard flag) or cancelled.
Callers == {"execute", "direct"}

IdleCall == [pc |-> "idle", to_recover |-> <<>>, queried |-> FALSE, ret |-> 0]

\* What a list query gives: an exception, or the ids of the issues listed
\* (NoId for an issue without an id).
QueryResults ==
    {[ok |-> FALSE, issues |-> <<>>]} \cup
    {[ok |-> TRUE, issues |-> q] : q \in UNION {[1..k -> Ids \cup {NoId}] : k \in 0..MaxQuery}}

SeqToSet(q) == {q[k] : k \in 1..Len(q)}

\* Mutant of the loops: no seen_ids, every listed issue is appended.
ScanNoDedup(list, issues, skip) ==
    list \o SelectSeq(issues, LAMBDA id : id # NoId /\ id \notin skip)

\* The loops at lines 361-365 and 378-384: append each listed issue that has
\* an id, is not yet seen and is not in skip.
RECURSIVE Scan(_, _, _)
Scan(list, issues, skip) ==
    IF issues = <<>> THEN list
    ELSE LET id == Head(issues)
         IN  IF id # NoId /\ id \notin SeqToSet(list) /\ id \notin skip
             THEN Scan(Append(list, id), Tail(issues), skip)
             ELSE Scan(list, Tail(issues), skip)

\* The keys of self._worker_tasks.
Tracked == {i \in Ids : worker_tasks[i] # NoTask}

\* ----------------------------------------------------------------- execute
\* execute() is idle (not called), returned with ret, or suspended at the
\* await pc names: the emit of prompt:submit (line 428), process_hook_result
\* (430, "hook_result"), the emit of execution:start (437), context.add_message
\* (441, "begin"), a query of the recovery scan ("recovery"), a query of the
\* progress check ("progress"), context.get_messages (589, "messages"),
\* provider.complete (488, "model"), the emit of tool:pre (635), tool.execute
\* (642), the emit of tool:post (661, or 676 in the handler: "tool_post_err"),
\* context.add_message of _update_context (1154), the emit of
\* orchestrator:complete (557, "complete") or of execution:end (567, "end").
\* report, orphans and errors are the progress report (its sections, the
\* orphans it lists, the spawn errors it quotes) until the messages are built
\* from it; ctx the roles of the messages the turn has added to the context,
\* events the turn-level hook events it has emitted.  calls counts
\* provider.complete() calls, all_tools is whether every response so far
\* carried tool calls, tcs the tool calls of the current response, n their
\* number and pending how many of them are not finished, spawned the issues a
\* worker was launched for in this turn.  log is what _execute_tools has done
\* for the response so far: per call, in order, the hook events emitted, the
\* call of tool.execute, the call of _maybe_spawn_worker and each result
\* appended.  resps lists the responses provider.complete() has returned in
\* this turn (whether each carried tool calls, whether it carried text) and
\* final is final_response: the position in resps of the response whose text
\* it holds, 0 for the empty string it starts with.
IdleExecute ==
    [pc |-> "idle", providers |-> FALSE, issue_tool |-> FALSE, iteration |-> 0, calls |-> 0,
     all_tools |-> TRUE, pending |-> 0, spawned |-> {}, report |-> {}, orphans |-> <<>>,
     errors |-> <<>>, ctx |-> <<>>, events |-> <<>>, results |-> <<>>, n |-> 0, tcs |-> <<>>,
     log |-> <<>>, context |-> <<>>,
     resps |-> <<>>, final |-> 0, ret |-> "none"]

\* task.cancelled() and task.exception() of a task that is done.
TaskCancelled(t) == tasks[t].st = "cancelled"

TaskException(t) == tasks[t].st = "failed"

\* Mutant of the status: the cancelled check is missing.
WorkerStatusNoCancelled(i) ==
    LET t == worker_tasks[i]
    IN  IF Done(t) THEN (IF TaskException(t) THEN "failed" ELSE "completed") ELSE "running"

\* get_worker_status for a tracked issue (lines 317-325).
WorkerStatus(i) ==
    LET t == worker_tasks[i]
    IN  IF Done(t)
        THEN IF TaskCancelled(t) THEN "cancelled"
             ELSE IF TaskException(t) THEN "failed"
             ELSE "completed"
        ELSE "running"

\* get_worker_status: one entry per key of self._worker_tasks.
GetWorkerStatus == [i \in Tracked |-> WorkerStatus(i)]

\* The call of _check_worker_progress: idle (no call), or suspended on the
\* query pc names.  parts and running are its locals, answers the values the
\* queries have returned, orphans the orphan list it found.
IdleDigest == [pc |-> "idle", parts |-> <<>>, answers |-> <<>>, orphans |-> <<>>, running |-> 0]

\* -------------------------------------------------------------------- init
Init ==
    /\ config = DefaultConfig
    /\ worker_tasks = [i \in Ids |-> NoTask]
    /\ spawned_issues = {}
    /\ spawn_errors = <<>>
    /\ tasks = [t \in TaskIds |-> FreeTask]
    /\ upd = <<>>
    /\ coordinator = "none"
    /\ hist = [errored |-> {}, updates |-> {}]
    /\ recovery_done = FALSE
    /\ orphaned_issues = <<>>
    /\ rec = [c \in Callers |-> IdleCall]
    /\ rec_query_calls = 0
    /\ ex = IdleExecute
    /\ orphan_digests = 0
    /\ progress = IdleDigest
    /\ last = [op |-> "init", issue |-> NoId, out |-> "none"]

\* ------------------------------------------------------------ spawn errors
RemoveAt(seq, n) == [k \in 1..(Len(seq) - 1) |-> IF k < n THEN seq[k] ELSE seq[k + 1]]

\* Mutant of the message: the error text without the issue id.
SpawnErrorMessageUntagged(i, kind) == [issue |-> NoId, kind |-> kind]

\* Line 1049: error_msg = f"Issue #{issue_id}: {error}".
SpawnErrorMessage(i, kind) == [issue |-> i, kind |-> kind]

\* _append_spawn_error: append the message to the list and create the task
\* that will run _update_issue_status_blocked(issue_id, error).  The lengths
\* are bounds of the model.
AppendSpawnError(i, kind) ==
    /\ Len(spawn_errors) < MaxErrors
    /\ Len(upd) < MaxErrors
    /\ spawn_errors' = Append(spawn_errors, SpawnErrorMessage(i, kind))
    /\ upd' = Append(upd, [issue |-> i, kind |-> kind, st |-> "created"])
    /\ hist' = [hist EXCEPT !.errored = @ \cup {i}]

\* What _update_issue_status_blocked does when its task runs: without a
\* coordinator, or without an issue tool among coordinator.tools, it only
\* logs; otherwise it calls the issue tool with status "blocked".
BlockedUpdate(coord) ==
    IF coord = "none" THEN "no_coordinator"
    ELSE IF coord = "no_issue_tool" THEN "no_issue_tool"
    ELSE "blocked"

\* Lines 1058-1069: the n-th update task starts (the tasks start in the order
\* they were created).  Without a coordinator or an issue tool it returns at
\* once; otherwise it sends the update and suspends on issue_tool.execute.
UpdateIssueStatusBlocked(n) ==
    /\ n \in 1..Len(upd)
    /\ upd[n].st = "created"
    /\ \A m \in 1..(n - 1) : upd[m].st = "sent"
    /\ IF BlockedUpdate(coordinator) = "blocked"
       THEN /\ upd' = [upd EXCEPT ![n].st = "sent"]
            /\ hist' = [hist EXCEPT !.updates = @ \cup {[issue |-> upd[n].issue, status |-> "blocked"]}]
       ELSE /\ upd' = RemoveAt(upd, n)
            /\ UNCHANGED hist
    /\ last' = [op |-> "update_issue_status", issue |-> upd[n].issue, out |-> BlockedUpdate(coordinator)]
    /\ UNCHANGED <<config, worker_tasks, spawned_issues, spawn_errors, tasks, coordinator>>

\* Lines 1079-1081: issue_tool.execute has returned or raised (the handler
\* logs the exception); the task ends.
UpdateIssueStatusDone(n) ==
    /\ n \in 1..Len(upd)
    /\ upd[n].st = "sent"
    /\ upd' = RemoveAt(upd, n)
    /\ last' = [op |-> "update_issue_status_done", issue |-> upd[n].issue, out |-> "done"]
    /\ UNCHANGED <<config, worker_tasks, spawned_issues, spawn_errors, tasks, coordinator, hist>>

\* ------------------------------------------------------ _maybe_spawn_worker
\* Mutant of the launch: the foreman claims the issue for the worker.
SpawnWorkerTaskClaiming(i) ==
    /\ FreeHandles # {}
    /\ tasks' = [tasks EXCEPT ![Min(FreeHandles)] = NewTask(i)]
    /\ worker_tasks' = [worker_tasks EXCEPT ![i] = Min(FreeHandles)]
    /\ spawned_issues' = spawned_issues \cup {i}
    /\ hist' = [hist EXCEPT !.updates = @ \cup {[issue |-> i, status |-> "in_progress"]}]

\* _spawn_worker_task: create the task (line 159), register it (160), add
\* the id to _spawned_issues (161), add the done callback (164).  Nothing is
\* sent to the issue store: the worker claims the issue itself.  The task of
\* lines 169-175 only emits the task_created diagnostic and touches no field.
\* The guard is the bound on the handles of the model.
SpawnWorkerTask(i) ==
    /\ FreeHandles # {}
    /\ tasks' = [tasks EXCEPT ![Min(FreeHandles)] = NewTask(i)]
    /\ worker_tasks' = [worker_tasks EXCEPT ![i] = Min(FreeHandles)]
    /\ spawned_issues' = spawned_issues \cup {i}
    /\ UNCHANGED hist

\* Mutants of the duplicate check: no check at all, and the check of the
\* ever-spawned set alone (no respawn after completion).
AlreadyRunningNever(i) == FALSE

AlreadyRunningEverSpawned(i) == i \in spawned_issues

\* The duplicate check: the issue was spawned before and its tracked task is
\* still unfinished.
AlreadyRunning(i) ==
    /\ i \in spawned_issues
    /\ worker_tasks[i] # NoTask
    /\ ~Done(worker_tasks[i])

\* Mutant of line 711: the id is not recorded.
MarkSpawnedNever(i) == UNCHANGED spawned_issues

\* Line 711: self._spawned_issues.add(issue_id).
MarkSpawned(i) == spawned_issues' = spawned_issues \cup {i}

\* _maybe_spawn_worker has no await: it runs as one step.  launch is whether
\* _spawn_worker_task raises before it registers the task.
MaybeSpawnWorker(issue, launch) ==
    LET i == issue.id
        pool == RouteIssue(config, issue)
    IN
    IF i = NoId THEN
        /\ last' = [op |-> "maybe_spawn_worker", issue |-> i, out |-> "no_id"]
        /\ UNCHANGED <<config, worker_tasks, spawned_issues, spawn_errors, tasks, upd, coordinator, hist>>
    ELSE IF AlreadyRunning(i) THEN
        /\ last' = [op |-> "maybe_spawn_worker", issue |-> i, out |-> "skipped"]
        /\ UNCHANGED <<config, worker_tasks, spawned_issues, spawn_errors, tasks, upd, coordinator, hist>>
    ELSE
        /\ MarkSpawned(i)
        /\ UNCHANGED <<config, coordinator>>
        /\ IF RouteRaises(issue) THEN
               \* line 715: the exception of _route_issue leaves the method
               /\ last' = [op |-> "maybe_spawn_worker", issue |-> i, out |-> "raised"]
               /\ UNCHANGED <<worker_tasks, tasks, spawn_errors, upd, hist>>
           ELSE IF pool = NoPool THEN
               /\ AppendSpawnError(i, "no_pool")
               /\ last' = [op |-> "maybe_spawn_worker", issue |-> i, out |-> "no_pool"]
               /\ UNCHANGED <<worker_tasks, tasks>>
           ELSE IF pool.worker_bundle = "" THEN
               /\ AppendSpawnError(i, "no_bundle")
               /\ last' = [op |-> "maybe_spawn_worker", issue |-> i, out |-> "no_bundle"]
               /\ UNCHANGED <<worker_tasks, tasks>>
           ELSE IF launch = "raise" THEN
               /\ AppendSpawnError(i, "launch")
               /\ last' = [op |-> "maybe_spawn_worker", issue |-> i, out |-> "launch_failed"]
               /\ UNCHANGED <<worker_tasks, tasks>>
           ELSE
               /\ SpawnWorkerTask(i)
               /\ last' = [op |-> "maybe_spawn_worker", issue |-> i, out |-> "spawned"]
               /\ UNCHANGED <<spawn_errors, upd>>

\* ------------------------------------------- _run_spawn_and_handle_result
\* The places where the unit can be suspended.  Each is a run of awaits
\* between which no field changes and which are inside the same try blocks:
\* "start" is the task before its first step and at the task_started
\* diagnostic (line 830); "load" lines 839-850, "prepare" 868-872,
\* "create_session" 894, "session_created" the diagnostic of line 902,
\* "execute" lines 920-927 (inside the inner try block), "write_state" lines
\* 933, 278 and 292, "cleanup" line 948.
Stages == <<"start", "load", "prepare", "create_session", "session_created",
            "execute", "write_state", "cleanup">>

StageAfter(at) == Stages[(CHOOSE k \in 1..Len(Stages) : Stages[k] = at) + 1]

\* What an await delivers when the unit is resumed: its value, an exception
\* of the collaborator (or of the synchronous code that follows the await:
\* the import of line 835, register_capability at line 913), or the
\* CancelledError of the host's task.cancel().
UnitEvents == {"ok", "exc", "cancel"}

\* Mutant of the unit: the try block opened after bundle.prepare(), so that a
\* failure to load or prepare escapes the handler.
CaughtAfterPrepare(at) == at \in {"create_session", "session_created"}

\* The stages before the inner try block whose exceptions reach the handler
\* of line 950: the try block of line 837 begins after the import.
Caught(at) == at \in {"load", "prepare", "create_session", "session_created"}

\* One step of the unit u resumed with ev.  Before the inner try block a
\* CancelledError ends the task (except Exception does not catch it) and an
\* exception reaches the handler, both without cleanup.  From line 918 on
\* whatever is raised is kept while the finally clause awaits cleanup(); then
\* the exception of cleanup, or the one kept, propagates.  An exception in
\* _write_worker_session_state is logged there.
UnitStep(u, ev) ==
    LET end(st) == [u EXCEPT !.st = st, !.at = "none", !.pend = "none"]
        handler == [u EXCEPT !.st = "failed_diag", !.at = "none", !.pend = "none"]
        finally(x) == [u EXCEPT !.at = "cleanup", !.cleanups = @ + 1, !.pend = x]
    IN
    IF u.at = "start" THEN
        IF ev = "cancel" THEN end("cancelled")
        ELSE IF ev = "exc" THEN end("failed")
        ELSE [u EXCEPT !.at = "load"]
    ELSE IF u.at \in {"load", "prepare", "create_session", "session_created"} THEN
        IF ev = "cancel" THEN end("cancelled")
        ELSE IF ev = "exc" THEN (IF Caught(u.at) THEN handler ELSE end("failed"))
        ELSE [u EXCEPT !.at = StageAfter(u.at), !.session = (u.session \/ u.at = "create_session")]
    ELSE IF u.at = "execute" THEN
        IF ev = "ok" THEN [u EXCEPT !.at = "write_state"] ELSE finally(ev)
    ELSE IF u.at = "write_state" THEN
        finally(IF ev = "cancel" THEN "cancel" ELSE "none")
    ELSE
        LET raised == IF ev # "ok" THEN ev ELSE u.pend
        IN  IF raised = "none" THEN end("completed")
            ELSE IF raised = "cancel" THEN end("cancelled")
            ELSE handler

\* The unit of task t runs from the await it is suspended at to the next
\* one, or to its end.  Reaching the handler appends the spawn error (line
\* 953) before the unit suspends on the execution_failed diagnostic; ending
\* makes the task done and schedules its done callback.
RunSpawnAndHandleResult(t, ev) ==
    LET u == UnitStep(tasks[t], ev) IN
    /\ tasks[t].st = "running"
    /\ tasks' = [tasks EXCEPT ![t] = u]
    /\ IF u.st = "failed_diag"
       THEN AppendSpawnError(tasks[t].issue, "execution")
       ELSE UNCHANGED <<spawn_errors, upd, hist>>
    /\ last' = [op |-> IF u.st = "running" THEN "worker_step" ELSE "worker_run",
                issue |-> tasks[t].issue, out |-> u.st]
    /\ UNCHANGED <<config, worker_tasks, spawned_issues, coordinator>>

\* After the execution_failed diagnostic the unit returns normally; a
\* CancelledError delivered at that await ends it cancelled.
WorkerFailedDiag(t, cancelled) ==
    /\ tasks[t].st = "failed_diag"
    /\ tasks' = [tasks EXCEPT ![t].st = IF cancelled THEN "cancelled" ELSE "completed"]
    /\ last' = [op |-> "worker_failed_diag", issue |-> tasks[t].issue, out |-> tasks'[t].st]
    /\ UNCHANGED <<config, worker_tasks, spawned_issues, spawn_errors, upd, coordinator, hist>>

\* Mutant of the done callback: it logs the outcome and leaves the table.
OnWorkerCompleteKeepingEntry(t) ==
    /\ Done(t)
    /\ tasks' = [tasks EXCEPT ![t] = FreeTask]
    /\ last' = [op |-> "on_worker_complete", issue |-> tasks[t].issue, out |-> tasks[t].st]
    /\ UNCHANGED <<config, worker_tasks, spawned_issues, spawn_errors, upd, coordinator, hist>>

\* Mutant of the done callback: it also discards the id from _spawned_issues.
OnWorkerCompleteForgetting(t) ==
    /\ Done(t)
    /\ tasks' = [tasks EXCEPT ![t] = FreeTask]
    /\ worker_tasks' = [worker_tasks EXCEPT ![tasks[t].issue] = NoTask]
    /\ spawned_issues' = spawned_issues \ {tasks[t].issue}
    /\ last' = [op |-> "on_worker_complete", issue |-> tasks[t].issue, out |-> tasks[t].st]
    /\ UNCHANGED <<config, spawn_errors, upd, coordinator, hist>>

\* _on_worker_complete: the done callback pops the issue id, whichever task
\* is registered under it.
OnWorkerComplete(t) ==
    /\ Done(t)
    /\ tasks' = [tasks EXCEPT ![t] = FreeTask]
    /\ worker_tasks' = [worker_tasks EXCEPT ![tasks[t].issue] = NoTask]
    /\ last' = [op |-> "on_worker_complete", issue |-> tasks[t].issue, out |-> tasks[t].st]
    /\ UNCHANGED <<config, spawned_issues, spawn_errors, upd, coordinator, hist>>

\* ------------------------------------------ _maybe_recover_orphaned_issues
\* Mutant of the guard: the flag is not set before the first query.
RecoverStartFlagNotSet(c) ==
    /\ rec[c].pc \in {"idle", "returned", "cancelled"}
    /\ IF recovery_done
       THEN /\ rec' = [rec EXCEPT ![c] = [IdleCall EXCEPT !.pc = "returned"]]
            /\ UNCHANGED rec_query_calls
       ELSE /\ rec' = [rec EXCEPT ![c] = [IdleCall EXCEPT !.pc = "open", !.queried = TRUE]]
            /\ rec_query_calls' = rec_query_calls + 1
    /\ last' = [op |-> "recover_start", issue |-> NoId, out |-> rec'[c].pc]
    /\ UNCHANGED <<recovery_done, orphaned_issues>>
    /\ UNCHANGED <<trackerVars, ex, orphan_digests, progress>>

\* Lines 341-354: return 0 when the flag is set; otherwise set it and suspend
\* on the open query.
RecoverStart(c) ==
    /\ rec[c].pc \in {"idle", "returned", "cancelled"}
    /\ IF recovery_done
       THEN /\ rec' = [rec EXCEPT ![c] = [IdleCall EXCEPT !.pc = "returned"]]
            /\ UNCHANGED <<recovery_done, rec_query_calls>>
       ELSE /\ recovery_done' = TRUE
            /\ rec' = [rec EXCEPT ![c] = [IdleCall EXCEPT !.pc = "open", !.queried = TRUE]]
            /\ rec_query_calls' = rec_query_calls + 1
    /\ last' = [op |-> "recover_start", issue |-> NoId, out |-> rec'[c].pc]
    /\ UNCHANGED orphaned_issues
    /\ UNCHANGED <<trackerVars, ex, orphan_digests, progress>>

\* Lines 360-371: the open query returns or raises; every open issue with an
\* id is kept, and the call suspends on the in_progress query.
RecoverOpenResult(c, res) ==
    /\ rec[c].pc = "open"
    /\ rec' = [rec EXCEPT ![c].pc = "in_progress",
                          ![c].to_recover = IF res.ok THEN Scan(<<>>, res.issues, {}) ELSE <<>>]
    /\ last' = [op |-> "recover_open", issue |-> NoId, arg |-> res,
                out |-> IF res.ok THEN "ok" ELSE "failed"]
    /\ UNCHANGED <<recovery_done, orphaned_issues, rec_query_calls>>
    /\ UNCHANGED <<trackerVars, ex, orphan_digests, progress>>

\* Mutant of the store: a worker is launched for the first of the detected
\* issues.
RecoverStoreAndRespawn(c, list) ==
    /\ rec' = [rec EXCEPT ![c].pc = "returned", ![c].to_recover = <<>>, ![c].ret = Len(list)]
    /\ orphaned_issues' = IF list # <<>> THEN list ELSE orphaned_issues
    /\ IF list # <<>> /\ FreeHandles # {}
       THEN SpawnWorkerTask(list[1])
       ELSE UNCHANGED <<worker_tasks, spawned_issues, tasks, hist>>
    /\ UNCHANGED <<recovery_done, rec_query_calls, config, spawn_errors, upd, coordinator, ex, orphan_digests, progress>>

\* Lines 392-401: store a non-empty list for the next progress report and
\* return its length; nothing is spawned.
RecoverStore(c, list) ==
    /\ rec' = [rec EXCEPT ![c].pc = "returned", ![c].to_recover = <<>>, ![c].ret = Len(list)]
    /\ orphaned_issues' = IF list # <<>> THEN list ELSE orphaned_issues
    /\ UNCHANGED <<recovery_done, rec_query_calls>>
    /\ UNCHANGED <<trackerVars, ex, orphan_digests, progress>>

\* Mutant of the handler of line 385: a failed in_progress query discards
\* what the open query found.
RecoveredListAllOrNothing(c, res) ==
    IF res.ok THEN Scan(rec[c].to_recover, res.issues, Tracked) ELSE <<>>

\* Lines 377-386: the issues of the in_progress query are kept unless their
\* id is a key of the live-task table; a query that raised adds nothing.
RecoveredList(c, res) ==
    IF res.ok THEN Scan(rec[c].to_recover, res.issues, Tracked) ELSE rec[c].to_recover

\* Lines 377-401: the in_progress query returns or raises; then the store.
RecoverInProgressResult(c, res) ==
    /\ rec[c].pc = "in_progress"
    /\ RecoverStore(c, RecoveredList(c, res))
    /\ last' = [op |-> "recover_in_progress", issue |-> NoId, arg |-> res,
                out |-> IF res.ok THEN "ok" ELSE "failed"]

\* The caller is cancelled while the call is suspended on a query: the
\* CancelledError passes both except clauses.
RecoverCancelled(c) ==
    /\ rec[c].pc \in {"open", "in_progress"}
    /\ rec' = [rec EXCEPT ![c].pc = "cancelled"]
    /\ last' = [op |-> "recover_cancelled", issue |-> NoId, out |-> "cancelled"]
    /\ UNCHANGED <<recovery_done, orphaned_issues, rec_query_calls>>
    /\ UNCHANGED <<trackerVars, ex, orphan_digests, progress>>

\* -------------------------------------------------- _check_worker_progress
OrphanPreview == 5

\* Line 1092: self._orphaned_issues[:5].
OrphanSection(list) ==
    SubSeq(list, 1, IF Len(list) > OrphanPreview THEN OrphanPreview ELSE Len(list))

\* Mutant of line 1097: the orphan list is kept after it is reported.
OrphansKeptAfterReport(list) == list

\* Line 1097: the orphan list is cleared after it is reported.
OrphansAfterReport(list) == <<>>

BlockedPreview == 3

\* Mutant of line 1127: every issue that needs input is listed.
BlockedSectionUncapped(list) == list

\* Line 1127: blocked[:3].
BlockedSection(list) ==
    SubSeq(list, 1, IF Len(list) > BlockedPreview THEN BlockedPreview ELSE Len(list))

\* sum(1 for s in task_status.values() if s == "running")
RunningCount == Cardinality({i \in Tracked : WorkerStatus(i) = "running"})

\* The three list queries, by the status they ask for, in the order of the
\* awaits at lines 1107, 1118 and 1131.
QueryNames == <<"completed", "pending_user_input", "in_progress">>

\* What a list query of the progress check gives: an exception, or the
\* issues listed (the first n issue ids).
DigestAnswers ==
    {[ok |-> FALSE, issues |-> <<>>]} \cup
    {[ok |-> TRUE, issues |-> [k \in 1..n |-> k]] : n \in 0..MaxBlocked}

\* Lines 1088-1103: the orphan section and the running section.
HeadSections(orphans, running) ==
    (IF orphans # <<>>
     THEN <<[section |-> "orphans", count |-> Len(orphans), shown |-> OrphanSection(orphans)]>>
     ELSE <<>>)
    \o (IF running # 0
        THEN <<[section |-> "running", count |-> running, shown |-> <<>>]>>
        ELSE <<>>)

\* Lines 1113-1115, 1124-1128, 1137-1139: the section of a list that is not
\* empty.
QuerySection(name, issues) ==
    IF issues = <<>> THEN <<>>
    ELSE <<[section |-> name, count |-> Len(issues),
            shown |-> IF name = "pending_user_input" THEN BlockedSection(issues) ELSE <<>>]>>

\* Mutant of the handler of line 1141: a failed query empties the digest.
AfterQueryFailureDiscarding(parts) == <<>>

\* Line 1141: the handler logs the exception; parts is what it was.
AfterQueryFailure(parts) == parts

\* Lines 1085-1107 with the orphan list at the call: the head of the digest
\* is built and the call suspends on the first query.
CheckWorkerProgressHead(list) ==
    [pc |-> QueryNames[1], parts |-> HeadSections(list, RunningCount), answers |-> <<>>,
     orphans |-> list, running |-> RunningCount]

\* The call starts: lines 1085-1107, the orphan list cleared at line 1097.
CheckWorkerProgressStart(list) ==
    /\ progress.pc = "idle"
    /\ progress' = CheckWorkerProgressHead(list)
    /\ orphaned_issues' = OrphansAfterReport(list)
    /\ orphan_digests' = orphan_digests + (IF list # <<>> THEN 1 ELSE 0)

\* The query the call is suspended on is answered: its section is appended
\* and the call suspends on the next query, or returns after the last query
\* and after a query that raised.
DigestReturns(ans) == ~ans.ok \/ progress.pc = QueryNames[3]

DigestParts(ans) ==
    IF ans.ok THEN progress.parts \o QuerySection(progress.pc, ans.issues)
    ELSE AfterQueryFailure(progress.parts)

CheckWorkerProgressResult(ans) ==
    /\ progress.pc # "idle"
    /\ progress' = IF DigestReturns(ans) THEN IdleDigest
                 ELSE [progress EXCEPT !.pc = QueryNames[Len(progress.answers) + 2],
                                     !.parts = DigestParts(ans),
                                     !.answers = Append(@, ans)]

\* What the step of the call leaves in last: the digest returned, or "" while
\* the call is suspended, with the answers so far and the orphan list and
\* running count of the head.
DigestLast(op, ans) ==
    [op |-> op, issue |-> NoId,
     out |-> IF DigestReturns(ans) THEN DigestParts(ans) ELSE <<>>,
     returned |-> DigestReturns(ans),
     arg |-> Append(progress.answers, ans), orphans |-> progress.orphans, running |-> progress.running]

\* A call of _check_worker_progress outside a turn, and the answers to it.
CheckWorkerProgressCall ==
    /\ ex.pc # "progress"
    /\ CheckWorkerProgressStart(orphaned_issues)
    /\ last' = [op |-> "check_worker_progress_start", issue |-> NoId, out |-> "suspended"]
    /\ UNCHANGED <<trackerVars, recovery_done, rec, rec_query_calls, ex>>

CheckWorkerProgressCallResult(ans) ==
    /\ ex.pc # "progress"
    /\ CheckWorkerProgressResult(ans)
    /\ last' = DigestLast("check_worker_progress", ans)
    /\ UNCHANGED <<trackerVars, recovery_done, orphaned_issues, rec, rec_query_calls, ex, orphan_digests>>

\* ------------------------------------------------------- _build_messages
\* A message of the context is its role and where it comes from: the
\* conversation the context holds when execute() is called ("history", with
\* its position), the prompt of the turn, the response of the turn, or
\* another coroutine that shares the context ("other").
HistoryWindow == 10

PromptMessage == [role |-> "user", src |-> "prompt", id |-> 0]

AssistantMessage == [role |-> "assistant", src |-> "response", id |-> 0]

LateMessage == [role |-> "user", src |-> "other", id |-> 0]

\* The conversations a context holds: user and assistant in turn, with at
\* most one message of another role among them.
Histories ==
    { [k \in 1..n |-> [role |-> IF k = p THEN "tool"
                                ELSE IF k % 2 = 1 THEN "user" ELSE "assistant",
                       src |-> "history", id |-> k]] :
        n \in 0..MaxHistory, p \in 0..MaxHistory }

\* history[-10:] of line 590.
LastN(seq, n) == SubSeq(seq, IF Len(seq) > n THEN Len(seq) - n + 1 ELSE 1, Len(seq))

\* Lines 578-582: the system prompt, with the progress report under its
\* heading when there is one.
SystemMessage(digest) ==
    [role |-> "system", src |-> IF digest THEN "prompt+digest" ELSE "prompt", id |-> 0]

\* Lines 575-594: the system message, then the user and assistant messages
\* among the last ten messages context.get_messages() returns.
BuildMessages(context, digest) ==
    <<SystemMessage(digest)>>
    \o SelectSeq(LastN(context, HistoryWindow), LAMBDA m : m.role \in {"user", "assistant"})

\* ------------------------------------------------------------ execute()
\* The call: lines 424-428.  The coordinator and the hooks are stored, and
\* prompt:submit is emitted.  history is what the context given to the call
\* holds.
ExecuteCall(coord, providers, issue_tool, history) ==
    /\ ex.pc \in {"idle", "returned"}
    /\ coordinator' = coord
    /\ ex' = [IdleExecute EXCEPT !.pc = "prompt_submit", !.providers = providers, !.issue_tool = issue_tool,
                                 !.events = <<"prompt:submit">>, !.context = history]
    /\ last' = [op |-> "execute_start", issue |-> NoId, out |-> ex'.pc]
    /\ UNCHANGED <<config, worker_tasks, spawned_issues, spawn_errors, tasks, upd, hist>>
    /\ UNCHANGED <<recVars, orphan_digests, progress>>

\* The call with a context that holds no message.
ExecuteStart(coord, providers, issue_tool) == ExecuteCall(coord, providers, issue_tool, <<>>)

\* Line 437: execution:start is emitted.
EmitExecutionStart(e) == [e EXCEPT !.pc = "execution_start", !.events = Append(@, "execution:start")]

\* Lines 428-437: the emit of prompt:submit has returned; deny is whether the
\* action of its result is "deny".  With a coordinator the result is handed
\* to process_hook_result; without one it is not looked at (line 429) and
\* execution:start is emitted.
ExecutePromptSubmitted(deny) ==
    /\ ex.pc = "prompt_submit"
    /\ ex' = IF coordinator # "none" THEN [ex EXCEPT !.pc = "hook_result"] ELSE EmitExecutionStart(ex)
    /\ last' = [op |-> "execute_prompt_submitted", issue |-> NoId, out |-> ex'.pc, deny |-> deny]
    /\ UNCHANGED trackerVars
    /\ UNCHANGED <<recVars, orphan_digests, progress>>

\* Lines 433-437: return the denial on deny, else emit execution:start.
AfterHookResult(e, deny) ==
    IF deny THEN [e EXCEPT !.pc = "returned", !.ret = "denied"] ELSE EmitExecutionStart(e)

\* process_hook_result has returned.
ExecuteHookResult(deny) ==
    /\ ex.pc = "hook_result"
    /\ ex' = AfterHookResult(ex, deny)
    /\ last' = [op |-> "execute_hook_result", issue |-> NoId, out |-> ex'.pc]
    /\ UNCHANGED trackerVars
    /\ UNCHANGED <<recVars, orphan_digests, progress>>

\* Line 441: the emit of execution:start has returned; context.add_message
\* is called with the user message (ctx holds the roles of the messages
\* execute() has handed to the context, context what the context holds: the
\* message is there when the call has returned).
ExecuteStarted ==
    /\ ex.pc = "execution_start"
    /\ ex' = [ex EXCEPT !.pc = "begin", !.ctx = Append(@, "user")]
    /\ last' = [op |-> "execute_started", issue |-> NoId, out |-> ex'.pc]
    /\ UNCHANGED trackerVars
    /\ UNCHANGED <<recVars, orphan_digests, progress>>

\* Lines 463-466: pending spawn errors go into the report.
FoldSpawnErrors == IF spawn_errors # <<>> THEN {"errors"} ELSE {}

\* Mutant of line 468: the errors are kept after they are reported.
ErrorsKeptAfterFold(errs) == errs

\* Line 468: the list is cleared after it is reported.
ErrorsAfterFold(errs) == <<>>

\* The sections of a digest, and the orphans its orphan section lists.
SectionNames(parts) == {parts[k].section : k \in 1..Len(parts)}

OrphansShown(parts) ==
    IF parts # <<>> /\ parts[1].section = "orphans" THEN parts[1].shown ELSE <<>>

\* Lines 462-471 and 575-589: the progress report is taken, the spawn errors
\* are folded into it and cleared, and _build_messages suspends on
\* context.get_messages().
FoldAndBuild(e, parts) ==
    /\ ex' = [e EXCEPT !.pc = "messages", !.report = SectionNames(parts) \cup FoldSpawnErrors,
                       !.orphans = OrphansShown(parts), !.errors = spawn_errors]
    /\ spawn_errors' = ErrorsAfterFold(spawn_errors)

\* Lines 441-460, from the return of context.add_message, with the prompt in
\* the context, to the next await: no provider returns at once; with an issue
\* tool the recovery scan starts unless its flag is set, and then the
\* progress check; without one the spawn errors are folded at once.
ExecuteBegin ==
    LET e == [ex EXCEPT !.context = Append(@, PromptMessage)] IN
    /\ ex.pc = "begin"
    /\ IF ~ex.providers THEN
           /\ ex' = [e EXCEPT !.pc = "returned", !.ret = "no_provider"]
           /\ UNCHANGED <<spawn_errors, recVars, orphan_digests, progress>>
       ELSE IF ex.issue_tool /\ ~recovery_done THEN
           /\ recovery_done' = TRUE
           /\ rec' = [rec EXCEPT !["execute"] = [IdleCall EXCEPT !.pc = "open", !.queried = TRUE]]
           /\ rec_query_calls' = rec_query_calls + 1
           /\ ex' = [e EXCEPT !.pc = "recovery"]
           /\ UNCHANGED <<spawn_errors, orphaned_issues, orphan_digests, progress>>
       ELSE IF ex.issue_tool THEN
           /\ CheckWorkerProgressStart(orphaned_issues)
           /\ ex' = [e EXCEPT !.pc = "progress"]
           /\ UNCHANGED <<spawn_errors, recovery_done, rec, rec_query_calls>>
       ELSE
           /\ FoldAndBuild(e, <<>>)
           /\ UNCHANGED <<recVars, orphan_digests, progress>>
    /\ last' = [op |-> "execute_begin", issue |-> NoId, out |-> ex'.pc]
    /\ UNCHANGED <<config, worker_tasks, spawned_issues, tasks, upd, coordinator, hist>>

\* Lines 377-401 and 455-460: the in_progress query of the scan execute()
\* awaits is answered; the scan stores its list and returns, and the progress
\* check starts with that list and suspends on its first query.
ExecuteAfterRecovery(res) ==
    LET list == RecoveredList("execute", res)
        stored == IF list # <<>> THEN list ELSE orphaned_issues
    IN
    /\ ex.pc = "recovery"
    /\ rec["execute"].pc = "in_progress"
    /\ rec' = [rec EXCEPT !["execute"].pc = "returned", !["execute"].to_recover = <<>>,
                          !["execute"].ret = Len(list)]
    /\ CheckWorkerProgressStart(stored)
    /\ ex' = [ex EXCEPT !.pc = "progress"]
    /\ last' = [op |-> "recover_in_progress", issue |-> NoId, arg |-> res,
                out |-> IF res.ok THEN "ok" ELSE "failed"]
    /\ UNCHANGED <<recovery_done, rec_query_calls>>
    /\ UNCHANGED trackerVars

\* Lines 1113-1144 and 460-471: a query of the progress check of execute() is
\* answered; when the check returns, the report is folded and the messages
\* are built.
ExecuteProgressResult(ans) ==
    /\ ex.pc = "progress"
    /\ CheckWorkerProgressResult(ans)
    /\ IF DigestReturns(ans)
       THEN FoldAndBuild(ex, DigestParts(ans))
       ELSE UNCHANGED <<ex, spawn_errors>>
    /\ last' = DigestLast("execute_progress_result", ans)
    /\ UNCHANGED <<config, worker_tasks, spawned_issues, tasks, upd, coordinator, hist>>
    /\ UNCHANGED <<recVars, orphan_digests>>

\* Mutant of the loop guard: one iteration too many.
LoopGuardInclusive(iteration) == iteration <= config.max_iterations

\* Line 480: while iteration < self.max_iterations.
LoopGuard(iteration) == iteration < config.max_iterations

\* Lines 553-554 and 1152-1154: the loop is left and the response is added to
\* the context as an assistant message.
UpdateContext(e) == [e EXCEPT !.pc = "update_context", !.ctx = Append(@, "assistant")]

\* Lines 480-488: the head of the loop.  Under the guard the next model call
\* is made; otherwise the loop is left.
LoopHead(e) ==
    IF LoopGuard(e.iteration)
    THEN [e EXCEPT !.pc = "model", !.iteration = @ + 1, !.calls = @ + 1]
    ELSE UpdateContext(e)

\* Lines 589-594 and 474-488: context.get_messages() has returned what the
\* context holds; the messages, with the progress report in the system
\* message, are built and the loop starts.  messages is the list the first
\* model call is given.
ExecuteMessages ==
    /\ ex.pc = "messages"
    /\ ex' = LoopHead([ex EXCEPT !.report = {}, !.orphans = <<>>, !.errors = <<>>])
    /\ last' = [op |-> "execute_messages", issue |-> NoId, out |-> ex'.pc,
                digest |-> ex.report # {},
                messages |-> BuildMessages(ex.context, ex.report # {})]
    /\ UNCHANGED trackerVars
    /\ UNCHANGED <<recVars, orphan_digests, progress>>

\* A tool call of a response names a tool that is not among tools
\* ("unknown"), is a create call on the issue tool ("create"), or is any other
\* call of a tool that is there ("plain").
CallKinds == {"unknown", "plain", "create"}

\* What provider.complete() gives: an exception, a response without tool
\* calls, or a response with tool calls.
Responses ==
    [kind : {"fail", "text"}, calls : {<<>>}]
    \cup [kind : {"tools"}, calls : SeqsUpTo(CallKinds, MaxToolCalls) \ {<<>>}]

\* Line 623: tools.get(tc.name); the issue tool is there when line 451 found
\* it.
Found(e, kind) == kind = "plain" \/ (kind = "create" /\ e.issue_tool)

ToolEvent(k, ev) == [call |-> k, ev |-> ev]

\* Lines 622-638 and 681, 538-548: the for loop at the call after the ones
\* that are finished.  A call of an unknown tool gets its result at once
\* and the loop moves on; for a known tool tool:pre is emitted; after the
\* last call _execute_tools returns and execute() is at the head of its loop.
RECURSIVE NextToolCall(_)
NextToolCall(e) ==
    LET k == e.n - e.pending + 1 IN
    IF e.pending = 0 THEN LoopHead(e)
    ELSE IF ~Found(e, e.tcs[k])
    THEN NextToolCall([e EXCEPT !.pending = @ - 1,
                                !.results = Append(@, "not_found"),
                                !.log = Append(@, ToolEvent(k, "result"))])
    ELSE [e EXCEPT !.pc = "tool_pre", !.log = Append(@, ToolEvent(k, "tool:pre"))]

\* Mutant of the failure handler: the failed call is logged and the loop
\* goes round again.
AfterModelFailureContinue(e) == LoopHead(e)

\* Lines 489-491: a failed model call returns the error string from execute().
AfterModelFailure(e) == [e EXCEPT !.pc = "returned", !.ret = "llm_error"]

\* Lines 494-502: final_response takes the text of a response that has text
\* blocks and keeps its value otherwise.
FinalResponse(e, text) == IF text THEN Len(e.resps) + 1 ELSE e.final

\* Lines 489-535 and 551-554: provider.complete() has returned resp or
\* raised.  text is whether the content of the response has a text block.
\* With tool calls _execute_tools runs up to its first await; without, the
\* loop is left.
ExecuteModelResponse(resp, text) ==
    /\ ex.pc = "model"
    /\ IF resp.kind = "fail" THEN
           ex' = AfterModelFailure([ex EXCEPT !.all_tools = FALSE])
       ELSE IF resp.kind = "text" THEN
           ex' = UpdateContext([ex EXCEPT !.all_tools = FALSE,
                                          !.final = FinalResponse(ex, text),
                                          !.resps = Append(@, [tools |-> FALSE, text |-> text])])
       ELSE
           ex' = NextToolCall([ex EXCEPT !.pending = Len(resp.calls), !.n = Len(resp.calls),
                                         !.tcs = resp.calls, !.results = <<>>, !.log = <<>>,
                                         !.final = FinalResponse(ex, text),
                                         !.resps = Append(@, [tools |-> TRUE, text |-> text])])
    /\ last' = [op |-> "execute_model_call", issue |-> NoId, out |-> ex'.pc, arg |-> resp.kind]
    /\ UNCHANGED trackerVars
    /\ UNCHANGED <<recVars, orphan_digests, progress>>

\* The model call with a provider whose responses all carry text.
ExecuteModelCall(resp) == ExecuteModelResponse(resp, TRUE)

\* An exception of hooks.emit outside the try block (line 635) or inside the
\* handler (line 676) leaves _execute_tools and execute().
HookRaised(e) == [e EXCEPT !.pc = "returned", !.ret = "raised", !.pending = 0]

\* What an emit around a tool call does: it returns or it raises.
EmitEvents == {"ok", "raises"}

\* Lines 635-642: the emit of tool:pre has returned, and tool.execute is
\* called, or it has raised.
ExecuteToolPre(ev) ==
    /\ ex.pc = "tool_pre"
    /\ ex' = IF ev = "raises" THEN HookRaised(ex)
             ELSE [ex EXCEPT !.pc = "tool_execute",
                             !.log = Append(@, ToolEvent(ex.n - ex.pending + 1, "execute"))]
    /\ last' = [op |-> "execute_tool_pre", issue |-> NoId, out |-> ex'.pc]
    /\ UNCHANGED trackerVars
    /\ UNCHANGED <<recVars, orphan_digests, progress>>

\* What tool.execute gives: an exception, an output that is a dict, or any
\* other output.
ToolAnswers == {"raises", "dict", "text"}

\* Mutant of the interception: every tool that returns a dict is taken for
\* an issue creation.
IsIssueCreationAnyTool(kind, ans) == ans = "dict"

\* Lines 646-649: the call names the issue tool (issue_manager, tool-issue or
\* issue), its operation is create and the output is a dict.
IsIssueCreation(kind, ans) == kind = "create" /\ ans = "dict"

\* Mutant of the handler: an exception of a tool leaves _execute_tools and
\* execute().
AfterToolFailureAbort(e) == [e EXCEPT !.pc = "returned", !.ret = "tool_error", !.pending = 0]

\* Lines 666-679: the handler appends the error result and emits tool:post.
AfterToolFailure(e) ==
    LET k == e.n - e.pending + 1 IN
    [e EXCEPT !.pc = "tool_post_err",
              !.results = Append(@, "error"),
              !.log = @ \o <<ToolEvent(k, "result"), ToolEvent(k, "tool:post")>>]

\* Lines 652-664: the result is appended and tool:post is emitted.
AfterToolSuccess(e) ==
    LET k == e.n - e.pending + 1 IN
    [e EXCEPT !.pc = "tool_post",
              !.results = Append(@, "output"),
              !.log = @ \o <<ToolEvent(k, "result"), ToolEvent(k, "tool:post")>>]

\* Lines 643-679: tool.execute has returned or raised.  The dict a create
\* call on the issue tool returns goes through _maybe_spawn_worker, which has
\* no await; issue is output.get("issue", {}).
ExecuteToolResult(ans, issue, launch) ==
    LET k == ex.n - ex.pending + 1
        spawn == IsIssueCreation(ex.tcs[k], ans)
    IN
    /\ ex.pc = "tool_execute"
    /\ IF spawn
       THEN MaybeSpawnWorker(issue, launch)
       ELSE /\ last' = [op |-> "execute_tool", issue |-> NoId, out |-> ans]
            /\ UNCHANGED trackerVars
    /\ LET e1 == [ex EXCEPT !.spawned = IF last'.out = "spawned" THEN @ \cup {issue.id} ELSE @,
                            !.log = @ \o (IF spawn THEN <<ToolEvent(k, "spawn")>> ELSE <<>>)]
       IN  ex' = IF ans = "raises" \/ last'.out = "raised"
                 THEN AfterToolFailure(e1)
                 ELSE AfterToolSuccess(e1)
    /\ UNCHANGED <<recVars, orphan_digests, progress>>

\* Lines 661-681: an emit of tool:post has returned or raised.  The emit of
\* line 661 is inside the try block: its exception goes to the handler, which
\* appends an error result and emits tool:post again.
ExecuteToolPost(ev) ==
    /\ ex.pc \in {"tool_post", "tool_post_err"}
    /\ ex' = IF ev = "ok" THEN NextToolCall([ex EXCEPT !.pending = @ - 1])
             ELSE IF ex.pc = "tool_post" THEN AfterToolFailure(ex)
             ELSE HookRaised(ex)
    /\ last' = [op |-> "execute_tool_post", issue |-> NoId, out |-> ex'.pc]
    /\ UNCHANGED trackerVars
    /\ UNCHANGED <<recVars, orphan_digests, progress>>

\* Lines 554-557: context.add_message has returned, with the response in
\* the context; orchestrator:complete is emitted.
ExecuteContextUpdated ==
    /\ ex.pc = "update_context"
    /\ ex' = [ex EXCEPT !.pc = "complete", !.events = Append(@, "orchestrator:complete"),
                        !.context = Append(@, AssistantMessage)]
    /\ last' = [op |-> "execute_context_updated", issue |-> NoId, out |-> ex'.pc]
    /\ UNCHANGED trackerVars
    /\ UNCHANGED <<recVars, orphan_digests, progress>>

\* Line 567: execution:end is emitted.
ExecuteCompleteEmitted ==
    /\ ex.pc = "complete"
    /\ ex' = [ex EXCEPT !.pc = "end", !.events = Append(@, "execution:end")]
    /\ last' = [op |-> "execute_complete_emitted", issue |-> NoId, out |-> ex'.pc]
    /\ UNCHANGED trackerVars
    /\ UNCHANGED <<recVars, orphan_digests, progress>>

\* Mutant of the return: execute() awaits its workers first.
ExecuteFinishAwaitingWorkers ==
    /\ ex.pc = "end"
    /\ \A t \in TaskIds : tasks[t].st \notin {"running", "failed_diag"}
    /\ ex' = [ex EXCEPT !.pc = "returned", !.ret = "response"]
    /\ last' = [op |-> "execute_return", issue |-> NoId, out |-> "response"]
    /\ UNCHANGED trackerVars
    /\ UNCHANGED <<recVars, orphan_digests, progress>>

\* Line 569: the emit of execution:end has returned; execute() returns the
\* response.
ExecuteFinish ==
    /\ ex.pc = "end"
    /\ ex' = [ex EXCEPT !.pc = "returned", !.ret = "response"]
    /\ last' = [op |-> "execute_return", issue |-> NoId, out |-> "response"]
    /\ UNCHANGED trackerVars
    /\ UNCHANGED <<recVars, orphan_digests, progress>>

\* Another coroutine that shares the context adds a message to it while
\* execute() is suspended between its call of context.add_message (line 441)
\* and the return of context.get_messages (line 589).
ContextAppended ==
    /\ ex.pc \in {"begin", "recovery", "progress", "messages"}
    /\ LateMessage \notin SeqToSet(ex.context)
    /\ ex' = [ex EXCEPT !.context = Append(@, LateMessage)]
    /\ last' = [op |-> "context_appended", issue |-> NoId, out |-> ex.pc]
    /\ UNCHANGED trackerVars
    /\ UNCHANGED <<recVars, orphan_digests, progress>>

\* ---------------------------------------------------------- specification
\* Spec: the Worker Task Tracker under any interleaving of spawn calls, steps
\* of the units and done callbacks, with collaborators that never make a
\* spawn fail (every issue routes to a pool with a bundle and no unit reaches
\* its except handler) and at most two units unfinished at a time.  ErrSpec:
\* one worker at a time, every failure possible; no coordinator is stored, so
\* that an update task returns at line 1060 and never suspends.
RoutableIssues == {x \in Issues : x.meta_type = "coding"}

\* The events of Spec: every await returns, or the host cancels the task
\* while the worker session executes.
QuietEvent(t, ev) == ev = "ok" \/ (ev = "cancel" /\ tasks[t].at = "execute")

\* Spec launches a worker when at most one unit is unfinished.
RoomForWorker == Cardinality({t \in TaskIds : tasks[t].st = "running"}) <= 1

NoTasks == \A t \in TaskIds : tasks[t].st = "free"

Next ==
    \/ \E issue \in RoutableIssues :
          RoomForWorker /\ MaybeSpawnWorker(issue, "ok") /\ UNCHANGED othVars
    \/ \E t \in TaskIds, ev \in UnitEvents :
          QuietEvent(t, ev) /\ RunSpawnAndHandleResult(t, ev) /\ UNCHANGED othVars
    \/ \E t \in TaskIds : OnWorkerComplete(t) /\ UNCHANGED othVars

Spec == Init /\ [][Next]_vars

ErrNext ==
    \/ \E issue \in Issues, launch \in {"ok", "raise"} :
          NoTasks /\ MaybeSpawnWorker(issue, launch) /\ UNCHANGED othVars
    \/ \E t \in TaskIds, ev \in UnitEvents : RunSpawnAndHandleResult(t, ev) /\ UNCHANGED othVars
    \/ \E t \in TaskIds, cancelled \in BOOLEAN : WorkerFailedDiag(t, cancelled) /\ UNCHANGED othVars
    \/ \E t \in TaskIds : OnWorkerComplete(t) /\ UNCHANGED othVars
    \/ \E n \in 1..MaxErrors : UpdateIssueStatusBlocked(n) /\ UNCHANGED othVars

ErrSpec == Init /\ [][ErrNext]_vars

\* CallbackSpec: ErrSpec under the event loop's guarantee that a callback
\* scheduled with call_soon is run.
CallbackSpec ==
    /\ Init /\ [][ErrNext]_vars
    /\ \A t \in TaskIds : WF_vars(OnWorkerComplete(t) /\ UNCHANGED othVars)

\* RespawnSpec: the life of the tasks of one routable issue.  A unit of work
\* ends in any of its ways (it returns, its handler records the failure, it
\* raises out of the handler, it is cancelled); _maybe_spawn_worker is called
\* for the issue again when the tasks launched before have ended, whether or
\* not their done callbacks have run.
RespawnSpec ==
    Init /\ [][ \/ \E issue \in RoutableIssues :
                      /\ \A t \in TaskIds : tasks[t].st \notin {"running", "failed_diag"}
                      /\ \A t \in TaskIds : tasks[t].st # "free" => tasks[t].issue = issue.id
                      /\ MaybeSpawnWorker(issue, "ok") /\ UNCHANGED othVars
                \/ \E t \in TaskIds, ev \in UnitEvents : RunSpawnAndHandleResult(t, ev) /\ UNCHANGED othVars
                \/ \E t \in TaskIds, cancelled \in BOOLEAN : WorkerFailedDiag(t, cancelled) /\ UNCHANGED othVars
                \/ \E t \in TaskIds : OnWorkerComplete(t) /\ UNCHANGED othVars
                \/ \E n \in 1..MaxErrors : UpdateIssueStatusBlocked(n) /\ UNCHANGED othVars ]_vars

\* SpawnSpec: ErrSpec with the issues of MalformedIssues among the arguments
\* of _maybe_spawn_worker.
SpawnNext ==
    \/ \E issue \in Issues \cup MalformedIssues, launch \in {"ok", "raise"} :
          NoTasks /\ MaybeSpawnWorker(issue, launch) /\ UNCHANGED othVars
    \/ \E t \in TaskIds, ev \in UnitEvents : RunSpawnAndHandleResult(t, ev) /\ UNCHANGED othVars
    \/ \E t \in TaskIds, cancelled \in BOOLEAN : WorkerFailedDiag(t, cancelled) /\ UNCHANGED othVars
    \/ \E t \in TaskIds : OnWorkerComplete(t) /\ UNCHANGED othVars
    \/ \E n \in 1..MaxErrors : UpdateIssueStatusBlocked(n) /\ UNCHANGED othVars

SpawnSpec == Init /\ [][SpawnNext]_vars

\* RecSpec: calls of the recovery scan, overlapping each other and the life
\* of the one worker the process launches, whose awaits all return.
RecNext ==
    \/ \E issue \in RoutableIssues :
          spawned_issues = {} /\ MaybeSpawnWorker(issue, "ok") /\ UNCHANGED othVars
    \/ \E t \in TaskIds : RunSpawnAndHandleResult(t, "ok") /\ UNCHANGED othVars
    \/ \E t \in TaskIds : OnWorkerComplete(t) /\ UNCHANGED othVars
    \/ \E c \in Callers : RecoverStart(c)
    \/ \E c \in Callers, res \in QueryResults : RecoverOpenResult(c, res)
    \/ \E c \in Callers, res \in QueryResults : RecoverInProgressResult(c, res)
    \/ \E c \in Callers : RecoverCancelled(c)

RecSpec == Init /\ [][RecNext]_vars

\* ExecSpec: turns of execute(), one after the other, with the recovery scan
\* of the first turn and the unit of one worker at a time, whose awaits all
\* return; the spawn errors are those of issues that route to no pool.
ExecIssues == {x \in Issues : x.id \in {NoId, 1} /\ x.meta_type \in {"coding", "docs"}}

\* What execute() is called with: without a coordinator, or with the tools
\* that are mounted on the coordinator.
SameTools(coord, issue_tool) == coord = "none" \/ (issue_tool <=> coord = "with_issue_tool")

ExecQueryResults == {r \in QueryResults : Len(r.issues) <= 1}

\* The answers to the queries of the progress check in the turns: a failure,
\* no issue, one issue.
ExecAnswers == {a \in DigestAnswers : Len(a.issues) <= 1}

\* The responses of ExecSpec ask for at most one tool call.
SingleCallResponses == {r \in Responses : Len(r.calls) <= 1}

\* tool.execute is answered with ans and the answer goes to
\* _maybe_spawn_worker.
SpawnsWorker(ans) ==
    /\ ex.pc = "tool_execute"
    /\ IsIssueCreation(ex.tcs[ex.n - ex.pending + 1], ans)

\* The steps of execute() once it is called, with every collaborator it
\* awaits (hooks, context, issue tool, provider, tools) answering.
ExecStep ==
    \/ \E deny \in BOOLEAN : ExecutePromptSubmitted(deny)
    \/ \E deny \in BOOLEAN : ExecuteHookResult(deny)
    \/ ExecuteStarted
    \/ ExecuteBegin
    \/ \E res \in ExecQueryResults : RecoverOpenResult("execute", res)
    \/ \E res \in ExecQueryResults : ExecuteAfterRecovery(res)
    \/ \E ans \in ExecAnswers : ExecuteProgressResult(ans)
    \/ ExecuteMessages
    \/ \E resp \in SingleCallResponses : ExecuteModelCall(resp)
    \/ ExecuteToolPre("ok")
    \/ \E ans \in ToolAnswers, issue \in ExecIssues :
          (SpawnsWorker(ans) => NoTasks) /\ ExecuteToolResult(ans, issue, "ok")
    \/ ExecuteToolPost("ok")
    \/ ExecuteContextUpdated
    \/ ExecuteCompleteEmitted
    \/ ExecuteFinish

ExecNext ==
    \/ \E coord \in {"none", "no_issue_tool", "with_issue_tool"}, providers, issue_tool \in BOOLEAN :
          SameTools(coord, issue_tool) /\ ExecuteStart(coord, providers, issue_tool)
    \/ ExecStep
    \/ \E t \in TaskIds : RunSpawnAndHandleResult(t, "ok") /\ UNCHANGED othVars
    \/ \E t \in TaskIds : OnWorkerComplete(t) /\ UNCHANGED othVars
    \/ \E n \in 1..MaxErrors : UpdateIssueStatusBlocked(n) /\ UNCHANGED othVars
    \/ \E n \in 1..MaxErrors : UpdateIssueStatusDone(n) /\ UNCHANGED othVars

ExecSpec == Init /\ [][ExecNext]_vars

\* FairExecSpec: the turns of execute() with a coordinator, responses of at
\* most one tool call and workers that never fail, under the event loop's
\* fairness: a coroutine whose await has been answered is resumed.
FairExecStep ==
    \/ \E deny \in BOOLEAN : ExecutePromptSubmitted(deny)
    \/ \E deny \in BOOLEAN : ExecuteHookResult(deny)
    \/ ExecuteStarted
    \/ ExecuteBegin
    \/ \E res \in ExecQueryResults : RecoverOpenResult("execute", res)
    \/ \E res \in ExecQueryResults : ExecuteAfterRecovery(res)
    \/ \E ans \in ExecAnswers : ExecuteProgressResult(ans)
    \/ ExecuteMessages
    \/ \E resp \in SingleCallResponses : ExecuteModelCall(resp)
    \/ ExecuteToolPre("ok")
    \/ \E ans \in ToolAnswers, issue \in ExecIssues \cap RoutableIssues :
          (SpawnsWorker(ans) => NoTasks) /\ ExecuteToolResult(ans, issue, "ok")
    \/ ExecuteToolPost("ok")
    \/ ExecuteContextUpdated
    \/ ExecuteCompleteEmitted
    \/ ExecuteFinish

FairExecNext ==
    \/ \E coord \in {"no_issue_tool", "with_issue_tool"}, providers, issue_tool \in BOOLEAN :
          SameTools(coord, issue_tool) /\ ExecuteStart(coord, providers, issue_tool)
    \/ FairExecStep
    \/ \E t \in TaskIds : RunSpawnAndHandleResult(t, "ok") /\ UNCHANGED othVars
    \/ \E t \in TaskIds : OnWorkerComplete(t) /\ UNCHANGED othVars

FairExecSpec == Init /\ [][FairExecNext]_vars /\ WF_vars(FairExecStep)

\* TurnSpec: the same turns and workers without the fairness condition;
\* a response carries up to MaxToolCalls tool calls.
TurnStep ==
    \/ \E deny \in BOOLEAN : ExecutePromptSubmitted(deny)
    \/ \E deny \in BOOLEAN : ExecuteHookResult(deny)
    \/ ExecuteStarted
    \/ ExecuteBegin
    \/ \E res \in ExecQueryResults : RecoverOpenResult("execute", res)
    \/ \E res \in ExecQueryResults : ExecuteAfterRecovery(res)
    \/ \E ans \in ExecAnswers : ExecuteProgressResult(ans)
    \/ ExecuteMessages
    \/ \E resp \in Responses : ExecuteModelCall(resp)
    \/ ExecuteToolPre("ok")
    \/ \E ans \in ToolAnswers, issue \in ExecIssues \cap RoutableIssues :
          (SpawnsWorker(ans) => NoTasks) /\ ExecuteToolResult(ans, issue, "ok")
    \/ ExecuteToolPost("ok")
    \/ ExecuteContextUpdated
    \/ ExecuteCompleteEmitted
    \/ ExecuteFinish

TurnNext ==
    \/ \E coord \in {"no_issue_tool", "with_issue_tool"}, providers, issue_tool \in BOOLEAN :
          SameTools(coord, issue_tool) /\ ExecuteStart(coord, providers, issue_tool)
    \/ TurnStep
    \/ \E t \in TaskIds : RunSpawnAndHandleResult(t, "ok") /\ UNCHANGED othVars
    \/ \E t \in TaskIds : OnWorkerComplete(t) /\ UNCHANGED othVars

TurnSpec == Init /\ [][TurnNext]_vars

\* LifeSpec: the turns of execute() with the recovery scan and the progress
\* report, and one worker at a time whose unit can end with every outcome:
\* the import fails, the execution of the session or its cleanup raises, or
\* the task is cancelled at one of these places.
LifeEvent(t, ev) == ev = "ok" \/ tasks[t].at \in {"start", "execute", "cleanup"}

LifeNext ==
    \/ \E coord \in {"none", "with_issue_tool"}, providers, issue_tool \in BOOLEAN :
          SameTools(coord, issue_tool) /\ ExecuteStart(coord, providers, issue_tool)
    \/ ExecutePromptSubmitted(FALSE)
    \/ ExecuteHookResult(FALSE)
    \/ ExecuteStarted
    \/ ExecuteBegin
    \/ \E res \in ExecQueryResults : RecoverOpenResult("execute", res)
    \/ \E res \in ExecQueryResults : ExecuteAfterRecovery(res)
    \/ \E ans \in ExecAnswers : ExecuteProgressResult(ans)
    \/ ExecuteMessages
    \/ \E resp \in SingleCallResponses : ExecuteModelCall(resp)
    \/ ExecuteToolPre("ok")
    \/ \E ans \in ToolAnswers, issue \in ExecIssues \cap RoutableIssues :
          (SpawnsWorker(ans) => NoTasks) /\ ExecuteToolResult(ans, issue, "ok")
    \/ ExecuteToolPost("ok")
    \/ ExecuteContextUpdated
    \/ ExecuteCompleteEmitted
    \/ ExecuteFinish
    \/ \E t \in TaskIds, ev \in UnitEvents :
          LifeEvent(t, ev) /\ RunSpawnAndHandleResult(t, ev) /\ UNCHANGED othVars
    \/ \E t \in TaskIds, cancelled \in BOOLEAN : WorkerFailedDiag(t, cancelled) /\ UNCHANGED othVars
    \/ \E t \in TaskIds : OnWorkerComplete(t) /\ UNCHANGED othVars
    \/ \E n \in 1..MaxErrors : UpdateIssueStatusBlocked(n) /\ UNCHANGED othVars
    \/ \E n \in 1..MaxErrors : UpdateIssueStatusDone(n) /\ UNCHANGED othVars

LifeSpec == Init /\ [][LifeNext]_vars

\* ToolSpec: turns of execute() with a provider, responses of up to
\* MaxToolCalls tool calls, and a hook registry whose emits around a tool call
\* can raise; one worker at a time, whose awaits all return.
ToolNext ==
    \/ \E coord \in {"none", "with_issue_tool"}, issue_tool \in BOOLEAN :
          SameTools(coord, issue_tool) /\ ExecuteStart(coord, TRUE, issue_tool)
    \/ ExecutePromptSubmitted(FALSE)
    \/ ExecuteHookResult(FALSE)
    \/ ExecuteStarted
    \/ ExecuteBegin
    \/ \E res \in ExecQueryResults : RecoverOpenResult("execute", res)
    \/ \E res \in ExecQueryResults : ExecuteAfterRecovery(res)
    \/ \E ans \in ExecAnswers : ExecuteProgressResult(ans)
    \/ ExecuteMessages
    \/ \E resp \in Responses : ExecuteModelCall(resp)
    \/ \E ev \in EmitEvents : ExecuteToolPre(ev)
    \/ \E ans \in ToolAnswers, issue \in ExecIssues \cap RoutableIssues :
          (SpawnsWorker(ans) => NoTasks) /\ ExecuteToolResult(ans, issue, "ok")
    \/ \E ev \in EmitEvents : ExecuteToolPost(ev)
    \/ ExecuteContextUpdated
    \/ ExecuteCompleteEmitted
    \/ ExecuteFinish
    \/ \E t \in TaskIds : RunSpawnAndHandleResult(t, "ok") /\ UNCHANGED othVars
    \/ \E t \in TaskIds : OnWorkerComplete(t) /\ UNCHANGED othVars

ToolSpec == Init /\ [][ToolNext]_vars

\* TextSpec: turns of execute() with a provider whose responses may carry no
\* text, tools that answer and hook emits that return; no call is a create
\* call on the issue tool.
TextResponses == {r \in Responses : \A k \in 1..Len(r.calls) : r.calls[k] # "create"}

TextNext ==
    \/ \E coord \in {"none", "with_issue_tool"}, issue_tool \in BOOLEAN :
          SameTools(coord, issue_tool) /\ ExecuteStart(coord, TRUE, issue_tool)
    \/ ExecutePromptSubmitted(FALSE)
    \/ ExecuteHookResult(FALSE)
    \/ ExecuteStarted
    \/ ExecuteBegin
    \/ \E res \in ExecQueryResults : RecoverOpenResult("execute", res)
    \/ \E res \in ExecQueryResults : ExecuteAfterRecovery(res)
    \/ \E ans \in ExecAnswers : ExecuteProgressResult(ans)
    \/ ExecuteMessages
    \/ \E resp \in TextResponses, text \in BOOLEAN : ExecuteModelResponse(resp, text)
    \/ ExecuteToolPre("ok")
    \/ \E ans \in ToolAnswers, issue \in ExecIssues \cap RoutableIssues :
          ExecuteToolResult(ans, issue, "ok")
    \/ ExecuteToolPost("ok")
    \/ ExecuteContextUpdated
    \/ ExecuteCompleteEmitted
    \/ ExecuteFinish

TextSpec == Init /\ [][TextNext]_vars

\* MessageSpec: turns of execute() up to the first model call, with a
\* context that holds a conversation when execute() is called and that
\* another coroutine may add one message to while the turn is suspended.  The
\* spawn errors are those of issues that route to no pool, left by the tool
\* calls of the turns before, each with its update task; no worker is
\* launched.  After the first turn execute() is called when a spawn error is
\* pending.
MessageNext ==
    \/ \E coord \in {"none", "with_issue_tool"}, issue_tool \in BOOLEAN, history \in Histories :
          /\ last.op = "init" \/ spawn_errors # <<>>
          /\ SameTools(coord, issue_tool) /\ ExecuteCall(coord, TRUE, issue_tool, history)
    \/ ExecutePromptSubmitted(FALSE)
    \/ ExecuteHookResult(FALSE)
    \/ ExecuteStarted
    \/ ExecuteBegin
    \/ \E res \in ExecQueryResults : RecoverOpenResult("execute", res)
    \/ \E res \in ExecQueryResults : ExecuteAfterRecovery(res)
    \/ \E ans \in ExecAnswers : ExecuteProgressResult(ans)
    \/ ExecuteMessages
    \/ ContextAppended
    \/ \E resp \in {r \in SingleCallResponses : r.kind # "fail" /\ r.calls \in {<<>>, <<"create">>}} :
          ExecuteModelCall(resp)
    \/ ExecuteToolPre("ok")
    \/ \E issue \in {x \in ExecIssues : x.id # NoId /\ x.meta_type = "docs"} :
          ExecuteToolResult("dict", issue, "ok")
    \/ ExecuteToolPost("ok")
    \/ ExecuteContextUpdated
    \/ ExecuteCompleteEmitted
    \/ ExecuteFinish
    \/ \E n \in 1..MaxErrors : UpdateIssueStatusBlocked(n) /\ UNCHANGED othVars
    \/ \E n \in 1..MaxErrors : UpdateIssueStatusDone(n) /\ UNCHANGED othVars

MessageSpec == Init /\ [][MessageNext]_vars

\* DigestSpec: calls of _check_worker_progress outside a turn, in the states
\* of Spec with an orphan list left by a recovery scan, under any
\* interleaving with spawns, the steps of units whose awaits all return, and
\* done callbacks.  Two calls are separated by a step of a worker or a spawn.
\* The orphan lists a recovery scan has stored: the first n issue ids.
OrphanLists == {[k \in 1..n |-> k] : n \in 0..Min({MaxQuery, MaxIssues})}

\* The issues DigestSpec spawns workers for.
DigestIssues == {x \in RoutableIssues : x.id <= 2}

\* DigestSpec launches a worker when every unit it has launched is suspended
\* on the execution of its session.
WorkersExecuting ==
    \A t \in TaskIds : tasks[t].st = "free" \/ (tasks[t].st = "running" /\ tasks[t].at = "execute")

\* The completed and in_progress lists hold at most one issue.
DigestAnswer(ans) == progress.pc # QueryNames[2] => Len(ans.issues) <= 1

DigestInit ==
    /\ config = DefaultConfig
    /\ worker_tasks = [i \in Ids |-> NoTask]
    /\ spawned_issues = {}
    /\ spawn_errors = <<>>
    /\ tasks = [t \in TaskIds |-> FreeTask]
    /\ upd = <<>>
    /\ coordinator = "none"
    /\ hist = [errored |-> {}, updates |-> {}]
    /\ recovery_done = TRUE
    /\ orphaned_issues \in OrphanLists
    /\ rec = [c \in Callers |-> IdleCall]
    /\ rec_query_calls = 0
    /\ ex = IdleExecute
    /\ orphan_digests = 0
    /\ progress = IdleDigest
    /\ last = [op |-> "init", issue |-> NoId, out |-> "none"]

DigestNext ==
    \/ \E issue \in DigestIssues :
          WorkersExecuting /\ MaybeSpawnWorker(issue, "ok") /\ UNCHANGED othVars
    \/ \E t \in TaskIds : RunSpawnAndHandleResult(t, "ok") /\ UNCHANGED othVars
    \/ \E t \in TaskIds : OnWorkerComplete(t) /\ UNCHANGED othVars
    \/ last.op # "check_worker_progress" /\ CheckWorkerProgressCall
    \/ \E ans \in DigestAnswers : DigestAnswer(ans) /\ CheckWorkerProgressCallResult(ans)

DigestSpec == DigestInit /\ [][DigestNext]_vars

\* RouteSpec: _route_issue as a function of the configuration and the issue.
\* The orchestrator is constructed from any configuration of up to MaxPools
\* pools and MaxRules rules; a rule without the if_metadata_type key is one
\* with an empty list (it matches no type), and default_pool "" is an absent
\* or empty default_pool.
PoolNames == {"coding-pool", "bare-pool"}

RoutePools ==
    { [name |-> "coding-pool", worker_bundle |-> "git+https://example.com/worker"],
      [name |-> "bare-pool", worker_bundle |-> ""] }

RouteRules ==
    [if_metadata_type : {{"coding"}, {"coding", "docs"}}, then_pool : PoolNames \cup {"ghost-pool"}]
    \cup {[if_metadata_type |-> {}, then_pool |-> "coding-pool"]}

RouteConfigs ==
    [ worker_pools : SeqsUpTo(RoutePools, MaxPools),
      rules : SeqsUpTo(RouteRules, MaxRules),
      default_pool : PoolNames \cup {"", "ghost-pool"},
      max_iterations : {MaxIterations} ]

\* Issues with the type in issue_type, in metadata.type, in both or in neither.
RouteIssues == [id : {1}, issue_type : {None, "coding"}, meta_type : {None, "coding", "docs"}]

RouteInit ==
    /\ config \in RouteConfigs
    /\ worker_tasks = [i \in Ids |-> NoTask]
    /\ spawned_issues = {}
    /\ spawn_errors = <<>>
    /\ tasks = [t \in TaskIds |-> FreeTask]
    /\ upd = <<>>
    /\ coordinator = "none"
    /\ hist = [errored |-> {}, updates |-> {}]
    /\ recovery_done = FALSE
    /\ orphaned_issues = <<>>
    /\ rec = [c \in Callers |-> IdleCall]
    /\ rec_query_calls = 0
    /\ ex = IdleExecute
    /\ orphan_digests = 0
    /\ progress = IdleDigest
    /\ last = [op |-> "init", issue |-> NoId, out |-> "none"]

\* A call of _route_issue(issue): it reads the configuration and changes
\* nothing.
RouteIssueCall(issue) ==
    /\ last' = [op |-> "route_issue", issue |-> issue.id, arg |-> issue,
                out |-> RouteIssue(config, issue)]
    /\ UNCHANGED <<trackerVars, othVars>>

RouteNext == \E issue \in RouteIssues : RouteIssueCall(issue)

RouteSpec == RouteInit /\ [][RouteNext]_vars

\* ResolveSpec: _resolve_bundle_path as a function of the path, the working
\* directory, the directories that hold a .git or .amplifier entry, the
\* coordinator and its repo.root_path capability.  A bundle path is the
\* prefix its string starts with ("rel" when none of the four) and the
\* components after it; a directory is the sequence of its names under "/".
PathPrefixes == {"git+", "http", "file:", "/", "rel"}

PathComps == {"workers", "..", "."}

BundlePaths == [prefix : PathPrefixes, comps : SeqsUpTo(PathComps, MaxPath)]

DirNames == <<"d1", "d2", "d3", "d4">>

NoRoot == [found |-> FALSE, dir |-> <<>>]

\* What the file system and the coordinator give one call: os.getcwd() is
\* depth names below "/", markers are the depths of its ancestors (0 is "/")
\* that hold .git or .amplifier, cap is what get_capability returns.
ResolveEnvs ==
    [depth : 0..MaxDepth, markers : SUBSET (0..MaxDepth),
     cap : {NoRoot, [found |-> TRUE, dir |-> <<"repo">>]}]

\* os.path.normpath of an absolute path: "." is dropped, ".." removes the
\* name before it and is dropped at "/".
RECURSIVE NormPath(_, _)
NormPath(done, todo) ==
    IF todo = <<>> THEN done
    ELSE LET c == Head(todo) IN
         IF c = "." THEN NormPath(done, Tail(todo))
         ELSE IF c = ".." THEN NormPath(IF done = <<>> THEN done ELSE SubSeq(done, 1, Len(done) - 1), Tail(todo))
         ELSE NormPath(Append(done, c), Tail(todo))

\* Mutant of the lookup: the capability of the coordinator is asked first.
FindRepoRootCapabilityFirst(coord, env) ==
    LET hits == {k \in 1..env.depth : k \in env.markers}
    IN  IF coord # "none" /\ env.cap.found THEN env.cap
        ELSE IF hits # {} THEN [found |-> TRUE, dir |-> SubSeq(DirNames, 1, CHOOSE k \in hits : \A j \in hits : j <= k)]
        ELSE NoRoot

\* _find_repo_root: the nearest directory from os.getcwd() upwards, "/"
\* itself excluded, that holds a marker; else the capability of the
\* coordinator, if there is a coordinator.
FindRepoRoot(coord, env) ==
    LET hits == {k \in 1..env.depth : k \in env.markers}
    IN  IF hits # {} THEN [found |-> TRUE, dir |-> SubSeq(DirNames, 1, CHOOSE k \in hits : \A j \in hits : j <= k)]
        ELSE IF coord # "none" /\ env.cap.found THEN env.cap
        ELSE NoRoot

\* _resolve_bundle_path.
ResolveBundlePath(coord, path, env) ==
    IF path.prefix # "rel" THEN path
    ELSE LET root == FindRepoRoot(coord, env)
         IN  IF root.found
             THEN [prefix |-> "/", comps |-> NormPath(<<>>, root.dir \o path.comps)]
             ELSE path

ResolveInit ==
    /\ config = DefaultConfig
    /\ worker_tasks = [i \in Ids |-> NoTask]
    /\ spawned_issues = {}
    /\ spawn_errors = <<>>
    /\ tasks = [t \in TaskIds |-> FreeTask]
    /\ upd = <<>>
    /\ coordinator \in {"none", "with_issue_tool"}
    /\ hist = [errored |-> {}, updates |-> {}]
    /\ recovery_done = FALSE
    /\ orphaned_issues = <<>>
    /\ rec = [c \in Callers |-> IdleCall]
    /\ rec_query_calls = 0
    /\ ex = IdleExecute
    /\ orphan_digests = 0
    /\ progress = IdleDigest
    /\ last = [op |-> "init", issue |-> NoId, out |-> "none"]

\* A call of _resolve_bundle_path(path) on the constructed orchestrator.
ResolveBundlePathCall(path, env) ==
    /\ last' = [op |-> "resolve_bundle_path", issue |-> NoId, arg |-> path, env |-> env,
                out |-> ResolveBundlePath(coordinator, path, env)]
    /\ UNCHANGED <<trackerVars, othVars>>

ResolveNext ==
    /\ last.op = "init"
    /\ \E path \in BundlePaths, env \in ResolveEnvs : ResolveBundlePathCall(path, env)

ResolveSpec == ResolveInit /\ [][ResolveNext]_vars

\* ------------------------------------------------------------------ claims
\* C1: in every reachable state each issue id has at most one unfinished
\* worker task.
C1_AtMostOneLiveWorker == \A i \in Ids : Cardinality(LiveTasks(i)) <= 1

\* C2: while the task tracked for issue X is unfinished, maybe_spawn_worker(X)
\* changes nothing: no task, no update task for the issue store, the same
\* live-task table, ever-spawned set and spawn-error list; and a call that
\* spawns for an issue without a live task leaves exactly one.
C2_DuplicateSpawnIsNoOp ==
    [][ \A issue \in Issues, launch \in {"ok", "raise"} :
          /\ ( /\ last'.op = "maybe_spawn_worker"
               /\ issue.id \in Ids
               /\ worker_tasks[issue.id] # NoTask
               /\ ~Done(worker_tasks[issue.id])
               /\ MaybeSpawnWorker(issue, launch) )
             => ( /\ UNCHANGED <<worker_tasks, spawned_issues, spawn_errors, tasks, upd>>
                  /\ last'.out = "skipped" )
          /\ ( /\ last'.op = "maybe_spawn_worker"
               /\ issue.id \in Ids
               /\ LiveTasks(issue.id) = {}
               /\ MaybeSpawnWorker(issue, launch)
               /\ last'.out = "spawned" )
             => Cardinality(LiveTasks(issue.id)') = 1
      ]_vars

C2_Witness ==
    /\ last.op = "maybe_spawn_worker" /\ last.out = "skipped"
    /\ Cardinality(LiveTasks(last.issue)) = 1
    /\ worker_tasks[last.issue] \in LiveTasks(last.issue)

\* C3: when no task is tracked for X, or the tracked one has finished with
\* any outcome (it returned, also after its handler recorded a failure; it
\* raised; it was cancelled), maybe_spawn_worker(X) with a routable issue
\* launches a new task, distinct from the earlier one, and registers it
\* under X.
C3_RespawnAfterCompletion ==
    [][ \A issue \in Issues :
          ( /\ last'.op = "maybe_spawn_worker"
            /\ issue.id \in Ids
            /\ \/ worker_tasks[issue.id] = NoTask
               \/ tasks[worker_tasks[issue.id]].st \in {"completed", "failed", "cancelled"}
            /\ RouteIssue(config, issue).worker_bundle # ""
            /\ MaybeSpawnWorker(issue, "ok") )
          => ( /\ worker_tasks'[issue.id] # NoTask
               /\ worker_tasks'[issue.id] # worker_tasks[issue.id]
               /\ tasks[worker_tasks'[issue.id]].st = "free"
               /\ tasks'[worker_tasks'[issue.id]] = NewTask(issue.id)
               /\ last'.out = "spawned" )
      ]_vars

\* A respawn over a tracked task that raised, whose done callback has not
\* run, after the handler of an earlier unit of the issue recorded a failure.
C3_Witness ==
    /\ last.op = "maybe_spawn_worker" /\ last.out = "spawned"
    /\ worker_tasks[last.issue] # NoTask
    /\ tasks[worker_tasks[last.issue]] = NewTask(last.issue)
    /\ last.issue \in hist.errored
    /\ \E t \in TaskIds : /\ tasks[t].st = "failed" /\ tasks[t].issue = last.issue
                          /\ t # worker_tasks[last.issue]

\* C8: an exception while the unit loads the bundle, prepares it or creates
\* the session goes to the handler, which records a spawn error tagged with
\* the unit's issue; an exception while the worker session executes is kept
\* over the cleanup and recorded the same way after it; the unit then ends
\* without an exception.
C8_UnitFailuresBecomeSpawnErrors ==
    [][ \A t \in TaskIds :
          /\ ( /\ tasks[t].at \in {"load", "prepare", "create_session"}
               /\ RunSpawnAndHandleResult(t, "exc") )
             => ( /\ spawn_errors' = Append(spawn_errors, SpawnErrorMessage(tasks[t].issue, "execution"))
                  /\ tasks'[t].st = "failed_diag" )
          /\ ( /\ tasks[t].at = "execute"
               /\ RunSpawnAndHandleResult(t, "exc") )
             => ( /\ tasks'[t].st = "running" /\ tasks'[t].at = "cleanup"
                  /\ tasks'[t].pend = "exc" )
          /\ ( /\ tasks[t].at = "cleanup" /\ tasks[t].pend = "exc"
               /\ RunSpawnAndHandleResult(t, "ok") )
             => ( /\ spawn_errors' = Append(spawn_errors, SpawnErrorMessage(tasks[t].issue, "execution"))
                  /\ tasks'[t].st = "failed_diag" )
          /\ \A c \in BOOLEAN :
                WorkerFailedDiag(t, c) => tasks'[t].st \in {"completed", "cancelled"}
      ]_vars

C8_Witness ==
    /\ last.op = "worker_failed_diag" /\ last.out = "completed"
    /\ \E t \in TaskIds : tasks[t].st = "completed" /\ tasks[t].issue = last.issue
                            /\ tasks[t].cleanups = 1
    /\ spawn_errors # <<>>
    /\ spawn_errors[Len(spawn_errors)] = SpawnErrorMessage(last.issue, "execution")

\* C4: at most one call of the recovery scan ever queries the issue store;
\* a call that starts after another call has passed the guard, that call
\* being returned, cancelled or still suspended on a query, returns 0 at
\* once, issues no query and leaves the orphan list as it is.
C4_RecoveryQueriesOnce ==
    /\ [](rec_query_calls <= 1)
    /\ [][ \A c \in Callers :
             (rec_query_calls >= 1 /\ RecoverStart(c))
             => ( /\ rec'[c].pc = "returned"
                  /\ rec'[c].ret = 0
                  /\ ~rec'[c].queried
                  /\ UNCHANGED <<orphaned_issues, rec_query_calls>> )
         ]_vars

C4_Witness ==
    /\ last.op = "recover_start"
    /\ \E c1, c2 \in Callers :
          /\ rec[c1].pc \in {"open", "in_progress"}
          /\ rec[c2].pc = "returned" /\ rec[c2].ret = 0 /\ ~rec[c2].queried

\* C5: when the in_progress query of the recovery scan returns, each issue it
\* lists (with an id) is in the orphan list after the scan exactly if its id
\* is not a key of the live-task table.
C5_RecoveryExcludesLiveWork ==
    [][ \A c \in Callers, res \in QueryResults :
          (res.ok /\ RecoverInProgressResult(c, res))
          => \A x \in SeqToSet(res.issues) \ {NoId} :
                (x \in SeqToSet(orphaned_issues')) <=> (x \notin Tracked)
      ]_vars

\* C6: no step of a call of the recovery scan (a step that moves the call)
\* creates a task or changes the live-task table, the ever-spawned set, the
\* spawn-error list or the pending updates; its last step returns the number
\* of issues detected and, when that is not zero, stores exactly that many
\* in the orphan list.
C6_RecoveryNeverSpawns ==
    [][ \A c \in Callers :
          /\ (rec'[c] # rec[c])
             => UNCHANGED <<worker_tasks, spawned_issues, spawn_errors, tasks, upd>>
          /\ (rec[c].pc = "in_progress" /\ rec'[c].pc = "returned")
             => ( /\ rec'[c].ret > 0 => ( /\ Len(orphaned_issues') = rec'[c].ret
                                          /\ orphaned_issues' # orphaned_issues )
                  /\ rec'[c].ret = 0 => UNCHANGED orphaned_issues )
      ]_vars

C6_Witness ==
    /\ last.op = "recover_in_progress"
    /\ \E c \in Callers : /\ rec[c].pc = "returned" /\ rec[c].ret > 0
                          /\ Len(orphaned_issues) = rec[c].ret
    /\ \E x \in SeqToSet(orphaned_issues) : x \notin spawned_issues /\ worker_tasks[x] = NoTask

\* C7: every task created for a recorded spawn error issues, when it runs,
\* the issue-store update that sets the issue's status to blocked.
C7_SpawnErrorBlocksIssue == last.op = "update_issue_status" => last.out = "blocked"

\* C9: execute() never makes more than max_iterations model calls; a turn
\* that got past the provider lookup and whose every response carried tool
\* calls returns its response normally after exactly max_iterations calls;
\* and every turn that is started returns.
C9_ExecuteBoundedByMaxIterations ==
    /\ [](ex.calls <= config.max_iterations)
    /\ []( (ex.pc = "returned" /\ ex.ret \notin {"denied", "no_provider"} /\ ex.all_tools)
           => (ex.calls = config.max_iterations /\ ex.ret = "response") )
    /\ ((ex.pc = "prompt_submit") ~> (ex.pc = "returned"))

C9_Witness ==
    /\ ex.pc = "returned" /\ ex.ret = "response" /\ ex.all_tools
    /\ ex.calls = config.max_iterations

\* C10: no step of execute() waits for a worker: whatever the worker tasks
\* are doing, the next step of a started turn can be taken, and the return
\* leaves the tasks and the live-task table as they are.
C10_ExecuteNeverWaitsForWorkers ==
    /\ [](ex.pc \notin {"idle", "returned"} => ENABLED ExecStep)
    /\ [](ex.pc = "end" => ENABLED ExecuteFinish)
    /\ [][ExecuteFinish => UNCHANGED <<tasks, worker_tasks>>]_vars

C10_Witness ==
    /\ ex.pc = "returned" /\ ex.ret = "response"
    /\ last.op = "worker_run" /\ last.out = "completed"
    /\ last.issue \in ex.spawned

\* C11: at every moment get_worker_status() has exactly the keys of the
\* live-task table, and the value for each is what its task is then: running
\* while the unit has not ended, cancelled, failed or completed once it has.
C11_WorkerStatusReflectsTasks ==
    /\ DOMAIN GetWorkerStatus = {i \in Ids : worker_tasks[i] # NoTask}
    /\ \A i \in DOMAIN GetWorkerStatus :
          LET st == tasks[worker_tasks[i]].st
          IN  /\ (st \in {"running", "failed_diag"}) <=> (GetWorkerStatus[i] = "running")
              /\ (st = "cancelled") <=> (GetWorkerStatus[i] = "cancelled")
              /\ (st = "failed") <=> (GetWorkerStatus[i] = "failed")
              /\ (st = "completed") <=> (GetWorkerStatus[i] = "completed")

C11_Witness ==
    /\ last.op = "worker_run" /\ last.out = "cancelled"
    /\ last.issue \in DOMAIN GetWorkerStatus
    /\ GetWorkerStatus[last.issue] = "cancelled"

\* C12: a progress check that starts while the orphan list is not empty
\* puts the orphans in its report and empties the list, and this is the
\* report the turn gets; at most one report of the process has an orphan
\* section, and once one has, the list is empty for good.
C12_OrphansSurfacedOnce ==
    /\ [](orphan_digests <= 1)
    /\ [](orphan_digests >= 1 => orphaned_issues = <<>>)
    /\ [][ (progress.pc = "idle" /\ progress'.pc # "idle")
           => ( /\ orphaned_issues' = <<>>
                /\ IF last'.op = "recover_in_progress"
                   THEN rec'["execute"].ret > 0 => Len(progress'.orphans) = rec'["execute"].ret
                   ELSE progress'.orphans = orphaned_issues
                /\ (progress'.parts # <<>> /\ progress'.parts[1].section = "orphans")
                      <=> (progress'.orphans # <<>>)
                /\ orphan_digests' = orphan_digests + (IF progress'.orphans # <<>> THEN 1 ELSE 0) )
         ]_vars
    /\ [][ (ex.pc = "progress" /\ ex'.pc = "messages")
           => ( /\ ("orphans" \in ex'.report) <=> (progress.orphans # <<>>)
                /\ ex'.orphans = OrphanSection(progress.orphans) )
         ]_vars

C12_Witness ==
    /\ orphan_digests = 1
    /\ ex.pc = "messages" /\ "orphans" \notin ex.report /\ ex.orphans = <<>>
    /\ last.op = "execute_progress_result"
    /\ orphaned_issues = <<>>

\* C13: the step that builds a turn's progress report quotes every spawn
\* error then in the list, those recorded while the progress check was
\* suspended among them, and leaves the list empty; no other step removes or
\* reorders an error (errors are only appended).
C13_SpawnErrorsDrainedOnce ==
    [][ IF ex.pc \in {"begin", "progress"} /\ ex'.pc = "messages"
        THEN /\ ex'.errors = spawn_errors
             /\ ("errors" \in ex'.report) <=> (spawn_errors # <<>>)
             /\ spawn_errors' = <<>>
        ELSE /\ Len(spawn_errors') >= Len(spawn_errors)
             /\ SubSeq(spawn_errors', 1, Len(spawn_errors)) = spawn_errors
      ]_vars

C13_Witness ==
    /\ last.op = "execute_progress_result"
    /\ ex.pc = "messages" /\ "errors" \in ex.report
    /\ ex.errors # <<>> /\ ex.errors[1].kind = "execution"
    /\ spawn_errors = <<>>

\* C14: every status update the foreman has sent to the issue store sets an
\* issue to blocked, and a spawn error was recorded for that issue before;
\* an update task exists only for an issue with a recorded spawn error.
C14_OnlyBlockedAfterSpawnError ==
    /\ \A u \in hist.updates : u.status = "blocked" /\ u.issue \in hist.errored
    /\ \A n \in 1..Len(upd) : upd[n].issue \in hist.errored

C14_Witness ==
    /\ last.op = "update_issue_status" /\ last.out = "blocked"
    /\ [issue |-> last.issue, status |-> "blocked"] \in hist.updates
    /\ \E t \in TaskIds : tasks[t].st = "running"

\* C15: when the prompt:submit signal is denied, by the result of the emit
\* or by the result the coordinator makes of it, execute() returns the
\* denial message without going on (with a coordinator it first hands the
\* result of the emit over); from its call to that return it has added
\* nothing to the context, run no scan, built no report, made no model call,
\* executed no tool, spawned no worker and emitted only prompt:submit.
C15_DenyReturnsImmediately ==
    /\ [][ (ex.pc = "prompt_submit" /\ last'.op = "execute_prompt_submitted" /\ last'.deny)
           => \/ ex'.pc = "hook_result"
              \/ ex'.pc = "returned" /\ ex'.ret = "denied"
         ]_vars
    /\ [][ ExecuteHookResult(TRUE)
           => ( /\ ex'.pc = "returned" /\ ex'.ret = "denied"
                /\ ex'.ctx = <<>> /\ ex'.events = <<"prompt:submit">>
                /\ ex'.calls = 0 /\ ex'.spawned = {} /\ ex'.report = {}
                /\ UNCHANGED <<recovery_done, orphaned_issues, rec, rec_query_calls, orphan_digests, progress>>
                /\ UNCHANGED <<worker_tasks, spawned_issues, spawn_errors, tasks, upd, hist>> )
         ]_vars
    /\ [][ (ex.pc \in {"prompt_submit", "hook_result"} /\ ex' # ex)
           => ( /\ ex.ctx = <<>> /\ ex.events = <<"prompt:submit">>
                /\ ex.calls = 0 /\ ex.spawned = {} /\ ex.report = {}
                /\ UNCHANGED <<recovery_done, orphaned_issues, rec, rec_query_calls, orphan_digests, progress>>
                /\ UNCHANGED <<worker_tasks, spawned_issues, spawn_errors, tasks, upd, hist>> )
         ]_vars

\* C16: a model call that fails makes execute() return the error string;
\* from that return until the next call of execute() the turn takes no step:
\* no model call is made, no tool call is executed and no worker is spawned.
C16_ModelFailureEndsTurn ==
    [][ /\ (ex.pc = "model" /\ ExecuteModelCall([kind |-> "fail", calls |-> <<>>]))
           => ( /\ ex'.pc = "returned" /\ ex'.ret = "llm_error"
                /\ ex'.calls = ex.calls /\ ex'.pending = 0 )
        /\ ( /\ ex.pc = "returned" /\ ex.ret = "llm_error"
             /\ last'.op # "execute_start" )
           => ( /\ ex' = ex
                /\ last'.op \notin {"execute_model_call", "execute_tool_pre", "execute_tool",
                                     "execute_tool_post", "maybe_spawn_worker"}
                /\ ~ ENABLED ExecStep )
      ]_vars

C16_Witness ==
    /\ last.op = "execute_model_call" /\ ex.pc = "returned" /\ ex.ret = "llm_error"
    /\ ex.calls = 2 /\ Len(ex.resps) = 1

\* C17: a tool call that raises adds an error result for that call to the
\* results of _execute_tools and nothing else, and tool:post is emitted; when
\* that emit returns the for loop goes on to the remaining calls of the
\* response, and after the last of them execute() is back at the head of its
\* loop, not returned.
C17_ToolFailureBecomesResult ==
    [][ /\ ( /\ last'.op = "execute_tool"
             /\ last'.out = "raises" )
           => ( /\ ex'.results = Append(ex.results, "error")
                /\ ex'.pending = ex.pending
                /\ ex'.pc = "tool_post_err" /\ ex'.ret = "none"
                /\ UNCHANGED <<worker_tasks, spawned_issues, spawn_errors, tasks, upd>> )
        /\ (ex.pc = "tool_post_err" /\ ExecuteToolPost("ok"))
           => ( /\ ex'.ret = "none"
                /\ SubSeq(ex'.results, 1, Len(ex.results)) = ex.results
                /\ Len(ex'.results) + ex'.pending = ex.n
                /\ IF ex'.pending > 0 THEN ex'.pc = "tool_pre"
                   ELSE IF LoopGuard(ex.iteration) THEN ex'.pc = "model"
                   ELSE ex'.pc = "update_context"
                /\ UNCHANGED <<worker_tasks, spawned_issues, spawn_errors, tasks, upd>> )
      ]_vars

C17_Witness ==
    /\ ex.pc = "model" /\ ex.results = <<"error", "output">>
    /\ ex.iteration = 2
    /\ last.op = "execute_tool_post"
    /\ \E t \in TaskIds : tasks[t].st = "running" /\ tasks[t].issue \in ex.spawned

\* C18: when some rule lists the issue type, _route_issue returns what the
\* then_pool name of the first such rule resolves to: a configured pool of
\* that name, or None when no configured pool has it, whatever the later
\* rules, default_pool and the first pool are; and two issues of the same
\* type get the same pool.
C18_FirstMatchingRuleWins ==
    /\ last.op = "route_issue" =>
          \A k \in 1..Len(config.rules) :
             ( /\ IssueType(last.arg) \in config.rules[k].if_metadata_type
               /\ \A j \in 1..(k - 1) : IssueType(last.arg) \notin config.rules[j].if_metadata_type )
             => LET name == config.rules[k].then_pool
                    named == {n \in 1..Len(config.worker_pools) : config.worker_pools[n].name = name}
                IN  IF named = {} THEN last.out = NoPool
                    ELSE \E n \in named : last.out = config.worker_pools[n]
    /\ \A a, b \in RouteIssues :
          IssueType(a) = IssueType(b) => RouteIssue(config, a) = RouteIssue(config, b)

C18_Witness ==
    /\ last.op = "route_issue"
    /\ Len(config.rules) = 2 /\ Len(config.worker_pools) = 2
    /\ IssueType(last.arg) = "coding"
    /\ config.rules[1].if_metadata_type = {"coding"}
    /\ config.rules[1].then_pool = "bare-pool"
    /\ config.rules[2] = [if_metadata_type |-> {"coding", "docs"}, then_pool |-> "coding-pool"]
    /\ config.default_pool = "coding-pool"
    /\ config.worker_pools[1].name = "coding-pool"
    /\ last.out.name = "bare-pool"

\* C19: when no rule lists the issue type, _route_issue returns the pool
\* default_pool names if it is set and some configured pool has that name;
\* otherwise the first configured pool; and None only if no pool is
\* configured.
C19_DefaultThenFirstPool ==
    ( /\ last.op = "route_issue"
      /\ \A k \in 1..Len(config.rules) : IssueType(last.arg) \notin config.rules[k].if_metadata_type )
    => LET named == {n \in 1..Len(config.worker_pools) :
                        config.worker_pools[n].name = config.default_pool}
       IN  /\ (config.default_pool # "" /\ named # {})
                => \E n \in named : last.out = config.worker_pools[n]
           /\ (config.default_pool = "" \/ named = {})
                => ( IF Len(config.worker_pools) > 0
                     THEN last.out = config.worker_pools[1]
                     ELSE last.out = NoPool )
           /\ (last.out = NoPool => Len(config.worker_pools) = 0)

\* C20: every call of _maybe_spawn_worker returns normally; when it ends
\* because no pool was found, the pool has no bundle or the launch raised, a
\* spawn error for the issue has been recorded.
C20_SpawnNeverRaises ==
    last.op = "maybe_spawn_worker"
    => ( /\ last.out # "raised"
         /\ last.out \in {"no_pool", "no_bundle", "launch_failed"}
              => last.issue \in hist.errored )

\* C21: a step of a unit at which a cancellation is delivered, and every
\* later step of a unit that holds a delivered cancellation, adds nothing to
\* the spawn-error list and creates no blocked-update task; a task that
\* ends cancelled does so without either; and the done callback of a
\* cancelled task removes the entry of its issue from the live-task table.
C21_CancellationIsBenign ==
    [][ /\ \A t \in TaskIds :
             ( /\ tasks[t].st = "running" /\ tasks'[t] # tasks[t]
               /\ (RunSpawnAndHandleResult(t, "cancel") \/ tasks[t].pend = "cancel") )
             => UNCHANGED <<spawn_errors, upd>>
        /\ ( /\ last'.op \in {"worker_run", "worker_failed_diag"}
             /\ last'.out = "cancelled" )
           => UNCHANGED <<spawn_errors, upd>>
        /\ ( /\ last'.op = "on_worker_complete"
             /\ last'.out = "cancelled" )
           => worker_tasks'[last'.issue] = NoTask
      ]_vars

\* C22: no step removes an issue id from the ever-spawned set: not the end
\* of a task with any outcome, its done callback, a step of the recovery
\* scan, the progress report or a later call of _maybe_spawn_worker.
C22_EverSpawnedOnlyGrows == [][spawned_issues \subseteq spawned_issues']_vars

C22_Witness ==
    /\ last.op = "on_worker_complete" /\ last.out = "cancelled"
    /\ last.issue \in spawned_issues
    /\ worker_tasks[last.issue] = NoTask
    /\ recovery_done

\* C23: whenever a call of execute() that was not denied has returned, it
\* has added its final response to the context as an assistant message and
\* has emitted orchestrator:complete (and, after it, execution:end).
C23_EveryTurnPersistsAndCompletes ==
    (ex.pc = "returned" /\ ex.ret # "denied")
    => ( /\ ex.ctx = <<"user", "assistant">>
         /\ \E k \in 1..Len(ex.events) : ex.events[k] = "orchestrator:complete" )

\* C24: the digest of _check_worker_progress has its sections in the order
\* orphans, running, completed, pending_user_input, in_progress; the orphan
\* section is there exactly if the orphan list was not empty at the call, the
\* running section exactly if some tracked task was not done at the call, and
\* the section of a query that returned exactly if its list is not empty; the
\* running count is the number of tracked tasks that were not done when the
\* call began, and the pending_user_input section shows the first three
\* issues of its list.
SectionOrder == <<"orphans", "running", "completed", "pending_user_input", "in_progress">>

SectionRank(name) == CHOOSE k \in 1..Len(SectionOrder) : SectionOrder[k] = name

C24_DigestSectionsInOrder ==
    /\ [][ (progress.pc = "idle" /\ progress'.pc # "idle")
           => LET unfinished == {i \in Ids : worker_tasks[i] # NoTask
                                             /\ tasks[worker_tasks[i]].st \notin Outcomes}
              IN  /\ progress'.running = Cardinality(unfinished)
                  /\ progress'.orphans = orphaned_issues
         ]_vars
    /\ []( (last.op = "check_worker_progress" /\ last.returned) =>
           LET d == last.out
               q == last.arg
               has(name) == \E k \in 1..Len(d) : d[k].section = name
               part(name) == d[CHOOSE k \in 1..Len(d) : d[k].section = name]
           IN  /\ \A j, k \in 1..Len(d) : j < k => SectionRank(d[j].section) < SectionRank(d[k].section)
               /\ has("orphans") <=> last.orphans # <<>>
               /\ has("running") <=> last.running > 0
               /\ has("running") => part("running").count = last.running
               /\ \A k \in 1..Len(q) :
                     q[k].ok => (has(SectionOrder[k + 2]) <=> q[k].issues # <<>>)
               /\ has("pending_user_input") =>
                     /\ Len(part("pending_user_input").shown) <= 3
                     /\ part("pending_user_input").count = Len(q[2].issues)
                     /\ \A k \in 1..Len(q[2].issues) :
                           k <= 3 => part("pending_user_input").shown[k] = q[2].issues[k] )

C24_Witness ==
    /\ last.op = "check_worker_progress" /\ last.returned
    /\ Len(last.out) = 5
    /\ last.out[2].count = 2
    /\ Len(last.arg[2].issues) = 4
    /\ Len(last.out[4].shown) = 3
    /\ RunningCount < 2

\* C25: _resolve_bundle_path returns a path that starts with git+, http,
\* file: or / unchanged; a relative path comes back joined to the nearest
\* marked directory at or above the working directory and normalized, else
\* joined to the coordinator's repo.root_path and normalized, else unchanged.
C25_ResolveBundlePath ==
    last.op = "resolve_bundle_path" =>
       LET path == last.arg
           env == last.env
           marked == {k \in 1..env.depth : k \in env.markers}
           joined(dir) ==
              /\ last.out.prefix = "/"
              /\ \A k \in 1..Len(last.out.comps) : last.out.comps[k] \notin {".", ".."}
              /\ last.out.comps = NormPath(<<>>, dir \o path.comps)
              /\ (\A k \in 1..Len(path.comps) : path.comps[k] = "workers")
                    => last.out.comps = dir \o path.comps
       IN  /\ path.prefix # "rel" => last.out = path
           /\ (path.prefix = "rel" /\ marked # {})
                => \E k \in marked : /\ \A j \in marked : j <= k
                                     /\ joined(SubSeq(DirNames, 1, k))
           /\ (path.prefix = "rel" /\ marked = {} /\ coordinator # "none" /\ env.cap.found)
                => joined(env.cap.dir)
           /\ (path.prefix = "rel" /\ marked = {} /\ (coordinator = "none" \/ ~env.cap.found))
                => last.out = path

C25_Witness ==
    /\ last.op = "resolve_bundle_path"
    /\ last.arg = [prefix |-> "rel", comps |-> <<"..", "workers">>]
    /\ last.env.depth = 2 /\ last.env.markers = {1, 2} /\ last.env.cap.found
    /\ coordinator = "with_issue_tool"
    /\ last.out = [prefix |-> "/", comps |-> <<"d1", "workers">>]

\* C26: in every reachable state each unfinished worker task is the task
\* registered under its issue id in the live-task table.
C26_NoLiveWorkerUntracked ==
    \A t \in TaskIds :
       tasks[t].st \in {"running", "failed_diag"} => worker_tasks[tasks[t].issue] = t

\* C27: a task that is done, whatever its outcome, eventually has had its
\* done callback run; when the callback has run the task is not in the
\* live-task table and its issue id is in the ever-spawned set.
C27_CallbackRunsAndUntracks ==
    /\ \A t \in TaskIds : Done(t) ~> (tasks[t].st = "free")
    /\ [][ \A t \in TaskIds :
             (Done(t) /\ tasks'[t].st = "free")
             => ( /\ \A i \in Ids : worker_tasks'[i] # t
                  /\ tasks[t].issue \in spawned_issues' )
         ]_vars

C27_Witness ==
    /\ last.op = "on_worker_complete" /\ last.out = "failed"
    /\ \A i \in Ids : worker_tasks[i] = NoTask
    /\ last.issue \in spawned_issues

\* C28: when a call of the recovery scan stores the orphan list, no issue of
\* the list has an entry in the live-task table.
C28_OrphansHaveNoLiveTask ==
    [][ \A c \in Callers :
          ( /\ rec[c].pc = "in_progress" /\ rec'[c].pc = "returned"
            /\ rec'[c].ret > 0 )
          => \A x \in SeqToSet(orphaned_issues') : x \notin Tracked
      ]_vars

\* C29: the open pass keeps each open issue with an id once; the list the
\* scan stores holds each of those and each in_progress issue with an id and
\* without an entry in the live-task table exactly once, nothing else, and
\* the scan returns the length of that list.
C29_OrphanListIsDedupedUnion ==
    [][ \A c \in Callers :
          /\ ( /\ rec[c].pc = "open" /\ rec'[c].pc = "in_progress"
               /\ last'.op = "recover_open" /\ last'.out = "ok" )
             => ( /\ SeqToSet(rec'[c].to_recover) = SeqToSet(last'.arg.issues) \ {NoId}
                  /\ Len(rec'[c].to_recover) = Cardinality(SeqToSet(rec'[c].to_recover)) )
          /\ ( /\ rec[c].pc = "in_progress" /\ rec'[c].pc = "returned"
               /\ last'.op = "recover_in_progress" )
             => LET kept == IF last'.out = "ok"
                            THEN (SeqToSet(last'.arg.issues) \ {NoId}) \ Tracked
                            ELSE {}
                    all == SeqToSet(rec[c].to_recover) \cup kept
                IN  /\ rec'[c].ret = Cardinality(all)
                    /\ all # {} => ( /\ SeqToSet(orphaned_issues') = all
                                     /\ Len(orphaned_issues') = Cardinality(all) )
      ]_vars

C29_Witness ==
    /\ last.op = "recover_in_progress" /\ last.out = "ok"
    /\ last.arg.issues = <<2, 1>>
    /\ orphaned_issues = <<1, 2>>
    /\ \E c \in Callers : rec[c].pc = "returned" /\ rec[c].ret = 2

\* C30: a call of _maybe_spawn_worker that gets past the duplicate check
\* for an issue that routes to no pool, or to a pool without worker_bundle,
\* appends exactly one spawn error, tagged with the issue id, and creates no
\* task: the live-task table and the tasks are unchanged.
C30_RoutingFailureRecordsOneError ==
    [][ \A issue \in Issues, launch \in {"ok", "raise"} :
          ( /\ last'.op = "maybe_spawn_worker"
            /\ issue.id # NoId
            /\ ~AlreadyRunning(issue.id)
            /\ (RouteIssue(config, issue) = NoPool \/ RouteIssue(config, issue).worker_bundle = "")
            /\ MaybeSpawnWorker(issue, launch) )
          => ( /\ Len(spawn_errors') = Len(spawn_errors) + 1
               /\ SubSeq(spawn_errors', 1, Len(spawn_errors)) = spawn_errors
               /\ spawn_errors'[Len(spawn_errors')].issue = issue.id
               /\ spawn_errors'[Len(spawn_errors')].kind \in {"no_pool", "no_bundle"}
               /\ UNCHANGED <<worker_tasks, tasks>> )
      ]_vars

C30_Witness ==
    /\ last.op = "maybe_spawn_worker" /\ last.out = "no_bundle"
    /\ spawn_errors = <<[issue |-> last.issue, kind |-> "no_bundle"]>>
    /\ NoTasks /\ worker_tasks[last.issue] = NoTask
    /\ last.issue \in spawned_issues

\* C31: a unit that has created a worker session (line 894 returned) and
\* has ended or reached its handler has awaited worker_session.cleanup()
\* exactly once, whatever the exit path.
C31_CleanupOnEveryExit ==
    \A t \in TaskIds :
       (tasks[t].st \in Outcomes \cup {"failed_diag"} /\ tasks[t].session) => tasks[t].cleanups = 1

\* The calls of the entries of the log with event ev, in log order.
LogCalls(ev) ==
    LET sel == SelectSeq(ex.log, LAMBDA x : x.ev = ev)
    IN  [j \in 1..Len(sel) |-> sel[j].call]

\* C32: while execute() works through the tool calls of a response and after
\* it, unless an emit made execute() raise, tool.execute has been called for
\* increasing positions of the response, the j-th result appended belongs to
\* the j-th tool call, the results in the message list are those appended,
\* and when _execute_tools has returned there is one result for each of the n
\* tool calls.
C32_OneResultPerCallInOrder ==
    (ex.n > 0 /\ ex.ret # "raised") =>
        /\ \A j \in 1..Len(LogCalls("execute")) - 1 :
              LogCalls("execute")[j] < LogCalls("execute")[j + 1]
        /\ \A j \in 1..Len(LogCalls("result")) : LogCalls("result")[j] = j
        /\ Len(ex.results) = Len(LogCalls("result"))
        /\ (ex.pending = 0) => (Len(ex.results) = ex.n)

\* C33: in a turn whose hook emits return, a create call on the issue tool
\* that returns an issue with an id runs _maybe_spawn_worker for that issue
\* when tool.execute has returned and before the result is appended, hence
\* before the next tool call of the response; a call of any other tool, or
\* one that does not return a dict, calls no spawn and leaves the tracker as
\* it is; and no spawn is logged for a call that is not a create call on an
\* issue tool that is there.
C33_CreationTriggersSpawn ==
    /\ [][ \A ans \in ToolAnswers, issue \in ExecIssues \cap RoutableIssues :
             (ex.pc = "tool_execute" /\ ExecuteToolResult(ans, issue, "ok")) =>
                LET k == ex.n - ex.pending + 1
                    added == SubSeq(ex'.log, Len(ex.log) + 1, Len(ex'.log))
                    E(ev) == [call |-> k, ev |-> ev]
                IN  IF ex.tcs[k] = "create" /\ ans = "dict" /\ issue.id # NoId
                    THEN /\ MaybeSpawnWorker(issue, "ok")
                         /\ last'.op = "maybe_spawn_worker" /\ last'.issue = issue.id
                         /\ issue.id \in spawned_issues'
                         /\ added = <<E("spawn"), E("result"), E("tool:post")>>
                         /\ ex'.pending = ex.pending /\ ex'.pc = "tool_post"
                    ELSE (ex.tcs[k] # "create" \/ ans # "dict") =>
                         /\ UNCHANGED trackerVars
                         /\ \A j \in 1..Len(added) : added[j].ev # "spawn"
         ]_vars
    /\ [][ (last'.op = "maybe_spawn_worker") => (ex.pc = "tool_execute" /\ ex'.pc = "tool_post") ]_vars
    /\ [](\A j \in 1..Len(ex.log) :
             ex.log[j].ev = "spawn" =>
                /\ ex.tcs[ex.log[j].call] = "create" /\ ex.issue_tool
                /\ j > 1 /\ ex.log[j - 1] = [call |-> ex.log[j].call, ev |-> "execute"])

C33_Witness ==
    /\ ex.pc = "tool_post" /\ ex.n = 2 /\ ex.pending = 2
    /\ last.op = "maybe_spawn_worker" /\ last.out = "spawned"
    /\ last.issue \in spawned_issues /\ worker_tasks[last.issue] # NoTask
    /\ Len(ex.log) = 5 /\ ex.log[3] = [call |-> 1, ev |-> "spawn"]

\* C34: when execute() has returned its response after a loop that stopped
\* at a response without tool calls, the text returned (final_response) is the
\* text of that response, the empty string if it has none, and that response
\* is the last one of the turn: every response before it carried tool calls.
C34_ReturnsTextOfLastResponse ==
    (ex.pc = "returned" /\ ex.ret = "response" /\ ex.resps # <<>> /\ ~ex.resps[Len(ex.resps)].tools) =>
        /\ ex.final = (IF ex.resps[Len(ex.resps)].text THEN Len(ex.resps) ELSE 0)
        /\ \A j \in 1..Len(ex.resps) - 1 : ex.resps[j].tools

\* C35: for a context that held a conversation (user and assistant messages
\* only) when the turn began and that nothing else was added to, the message
\* list the model is given is the system message (with the digest when there
\* is one), then the last ten messages of that history, then the prompt.
C35_SystemHistoryPrompt ==
    LET history == SelectSeq(ex.context, LAMBDA m : m.src = "history") IN
    ( /\ last.op = "execute_messages"
      /\ LateMessage \notin SeqToSet(ex.context)
      /\ \A k \in 1..Len(history) : history[k].role \in {"user", "assistant"} )
    => last.messages = <<SystemMessage(last.digest)>> \o LastN(history, HistoryWindow) \o <<PromptMessage>>

\* C36: unless an emit made execute() raise, each tool call of the response
\* that _execute_tools has finished has, for a tool that was found, tool:pre
\* emitted once before tool.execute and tool:post once after it, and for a
\* tool that was not found no emit and the not-found result.
C36_OnePreOnePostPerKnownTool ==
    (ex.n > 0 /\ ex.ret # "raised") =>
        \A k \in 1..(ex.n - ex.pending) :
           LET at(ev) == {j \in 1..Len(ex.log) : ex.log[j] = [call |-> k, ev |-> ev]}
           IN  IF Found(ex, ex.tcs[k])
               THEN /\ Cardinality(at("tool:pre")) = 1
                    /\ Cardinality(at("execute")) = 1
                    /\ Cardinality(at("tool:post")) = 1
                    /\ \A a \in at("tool:pre"), b \in at("execute"), c \in at("tool:post") : a < b /\ b < c
               ELSE /\ at("tool:pre") = {} /\ at("execute") = {} /\ at("tool:post") = {}
                    /\ ex.results[k] = "not_found"

\* C37: a call of _maybe_spawn_worker for an issue with an id that is not
\* skipped as a duplicate leaves the id in _spawned_issues, whether it ends in
\* a routing error, a missing pool or bundle, a failed launch or a launched
\* task; a call for an issue without an id changes nothing.
C37_EverSpawnedMarkedBeforeRouting ==
    [][ \A issue \in Issues \cup MalformedIssues, launch \in {"ok", "raise"} :
          (last'.op = "maybe_spawn_worker" /\ MaybeSpawnWorker(issue, launch)) =>
             /\ (issue.id # NoId /\ ~AlreadyRunning(issue.id)) =>
                   /\ issue.id \in spawned_issues'
                   /\ last'.out \in {"raised", "no_pool", "no_bundle", "launch_failed", "spawned"}
             /\ (issue.id = NoId) => UNCHANGED <<trackerVars, othVars>>
      ]_vars

C37_Witness ==
    /\ last.op = "maybe_spawn_worker" /\ last.out = "launch_failed"
    /\ last.issue \in spawned_issues
    /\ worker_tasks[last.issue] = NoTask /\ NoTasks

\* C38: in the recovery scan that execute() starts, a query that raises
\* does not end the turn and leaves the recovery flag set; a failed open query
\* contributes nothing and the scan goes on to the in_progress query; a failed
\* in_progress query makes the scan return the number of issues the open query
\* gave, which go to the progress check execute() then starts; and the issue
\* store is scanned by at most one call.
C38_RecoveryQueryFailureContained ==
    /\ [](rec_query_calls <= 1)
    /\ [][ (last'.op \in {"recover_open", "recover_in_progress"} /\ last'.out = "failed"
            /\ rec'["execute"] # rec["execute"]) =>
              /\ recovery_done /\ recovery_done'
              /\ ex.pc = "recovery" /\ ex'.ret = "none"
              /\ (last'.op = "recover_open") =>
                    /\ ex' = ex
                    /\ rec'["execute"].pc = "in_progress"
                    /\ rec'["execute"].to_recover = <<>>
              /\ (last'.op = "recover_in_progress") =>
                    /\ rec'["execute"].pc = "returned"
                    /\ rec'["execute"].ret = Len(rec["execute"].to_recover)
                    /\ ex'.pc = "progress"
                    /\ progress'.pc = "completed"
                    /\ progress'.orphans = rec["execute"].to_recover
         ]_vars

C38_Witness ==
    /\ last.op = "recover_in_progress" /\ last.out = "failed"
    /\ rec["execute"].pc = "returned" /\ rec["execute"].ret = 1
    /\ Len(progress.orphans) = 1
    /\ recovery_done /\ rec_query_calls = 1
    /\ ex.pc = "progress"

\* C39: when execute() has returned after emitting execution:start, the last
\* event it emitted is execution:end, and it emitted it once.
C39_ExecutionStartHasEnd ==
    (ex.pc = "returned" /\ \E j \in 1..Len(ex.events) : ex.events[j] = "execution:start") =>
        /\ ex.events[Len(ex.events)] = "execution:end"
        /\ Cardinality({j \in 1..Len(ex.events) : ex.events[j] = "execution:end"}) = 1

\* C40: a call of _check_worker_progress in which one of the three list
\* queries raises still returns a digest: the orphan section if there were
\* orphans, the running section if a tracked task was not done at the call,
\* the sections of the queries that returned before the failure and none of
\* the failed query or the ones after it; and the orphan list is empty after
\* the call.
C40_DigestSurvivesQueryFailure ==
    ( /\ last.op = "check_worker_progress" /\ last.returned
      /\ ~last.arg[Len(last.arg)].ok ) =>
       LET d == last.out
           q == last.arg
           has(name) == \E k \in 1..Len(d) : d[k].section = name
           names == <<"completed", "pending_user_input", "in_progress">>
       IN  /\ orphaned_issues = <<>>
           /\ has("orphans") <=> last.orphans # <<>>
           /\ has("running") <=> last.running > 0
           /\ \A k \in 1..3 : has(names[k]) <=> (k < Len(q) /\ q[k].issues # <<>>)
           /\ Len(d) = Cardinality({n \in {"orphans", "running"} \cup {names[k] : k \in 1..3} : has(n)})

C40_Witness ==
    /\ last.op = "check_worker_progress" /\ last.returned
    /\ Len(last.arg) = 2 /\ ~last.arg[2].ok /\ Len(last.arg[1].issues) = 1
    /\ last.orphans # <<>> /\ orphaned_issues = <<>>
    /\ Len(last.out) = 3
    /\ last.out[1].section = "orphans" /\ last.out[2].section = "running"
    /\ last.out[3].section = "completed"

====
